---- MODULE Spec2Model ----
(***************************************************************************)
(* Model of the Stem-Separator-API client (src/index.ts): the validators,  *)
(* the response parser, the error mapper, the two transports and the       *)
(* StemSeparatorClient facade.                                             *)
(*                                                                         *)
(* JavaScript strings are sequences of one-character strings; every other  *)
(* JavaScript value is a record tagged with its kind in field t.  A        *)
(* character this module's text cannot hold is written by its code point,  *)
(* as in "U+2028".                                                         *)
(***************************************************************************)
EXTENDS Integers, Sequences, FiniteSets, TLC

VARIABLES
    env,      \* host runtime: which globals exist (fetch, FormData, File)
    client,   \* the StemSeparatorClient instance, or the constructor's failure
    calls,    \* one record per call of a client method: position, timer, outcome
    fn,       \* name of the module-level function under direct application
    arg,      \* the input that function is applied to
    out       \* the results of its successive applications

vars == <<env, client, calls, fn, arg, out>>

----------------------------------------------------------------------------
(* Bounds of the exploration *)

\* longest string drawn for a one-string input
MaxLen == 3
\* longest string drawn when two strings are drawn together
MaxPairLen == 2

----------------------------------------------------------------------------
(* JavaScript values *)

Undefined == [t |-> "undefined"]
Null == [t |-> "null"]
Bool(b) == [t |-> "boolean", b |-> b]
Str(s) == [t |-> "string", s |-> s]
\* the integer n
Num(n) == [t |-> "number", k |-> "int", n |-> n]
\* the non-integer n + 0.5
Half(n) == [t |-> "number", k |-> "half", n |-> n]
NaN == [t |-> "number", k |-> "NaN", n |-> 0]
Infinity == [t |-> "number", k |-> "Infinity", n |-> 0]
Arr(items) == [t |-> "array", items |-> items]
Obj(f) == [t |-> "object", f |-> f]
\* marks a property an object does not have
Absent == [t |-> "absent"]

\* typeof v
TypeOf(v) ==
    IF v.t \in {"null", "array", "Blob", "Buffer", "Readable", "ArrayBuffer"}
    THEN "object" ELSE v.t

\* v == null
IsNullish(v) == v.t \in {"undefined", "null"}

\* x < m for a number value x and an integer m (comparisons with NaN are false)
NumLess(x, m) ==
    CASE x.k = "int" -> x.n < m
      [] x.k = "half" -> x.n < m
      [] x.k = "NaN" -> FALSE
      [] x.k = "Infinity" -> FALSE

\* x >= m for a number value x and an integer m
NumGeq(x, m) ==
    CASE x.k = "int" -> x.n >= m
      [] x.k = "half" -> x.n >= m
      [] x.k = "NaN" -> FALSE
      [] x.k = "Infinity" -> TRUE

\* obj.key for an object or array value (arrays carry no named property here)
Get(obj, key) ==
    IF obj.t = "object" /\ key \in DOMAIN obj.f /\ obj.f[key] # Absent
    THEN obj.f[key]
    ELSE Undefined

\* key in obj
HasProp(obj, key) ==
    obj.t = "object" /\ key \in DOMAIN obj.f /\ obj.f[key] # Absent

----------------------------------------------------------------------------
(* Strings *)

\* the characters strings are drawn from: a letter, the dot, both directory
\* separators, and two white-space characters of which one ends a line
Chars == {"a", ".", "/", "\\", " ", "\n"}
\* what String.prototype.trim strips: the white space and the line terminators
\* of the language (tab, line feed, vertical tab, form feed, carriage return,
\* space, no-break space, U+1680, U+FEFF, the space separators U+2000..U+200A,
\* the line and paragraph separators, U+202F, U+205F, U+3000)
WhiteSpace ==
    {" ", "\t", "\n", "\r", "\f", "", "U+00A0", "U+1680", "U+FEFF",
     "U+2000", "U+2001", "U+2002", "U+2003", "U+2004", "U+2005", "U+2006", "U+2007",
     "U+2008", "U+2009", "U+200A", "U+2028", "U+2029", "U+202F", "U+205F", "U+3000"}
\* what the dot of a regular expression without the s flag does not match
LineTerminators == {"\n", "\r", "U+2028", "U+2029"}
Separators == {"/", "\\"}

StringsUpTo(n) == UNION {[1..k -> Chars] : k \in 0..n}

\* s.includes(sub)
Includes(s, sub) ==
    \E i \in 1..(Len(s) - Len(sub) + 1) : SubSeq(s, i, i + Len(sub) - 1) = sub

\* s.trim()
Trim(s) ==
    LET keep == {i \in 1..Len(s) : s[i] \notin WhiteSpace}
    IN  IF keep = {} THEN <<>>
        ELSE LET lo == CHOOSE i \in keep : \A j \in keep : i <= j
                 hi == CHOOSE i \in keep : \A j \in keep : i >= j
             IN  SubSeq(s, lo, hi)

\* s.replace(/\/+$/, ''): drops the run of slashes that ends the string
StripTrailingSlashes(s) ==
    LET keep == {i \in 1..Len(s) : s[i] # "/"}
    IN  IF keep = {} THEN <<>>
        ELSE SubSeq(s, 1, CHOOSE i \in keep : \A j \in keep : i >= j)

\* s.replace(/^.*[/\\]/, ''): the dot matches no line terminator, so the match
\* is the longest prefix free of line terminators that ends in a separator
StripDirPrefix(s) ==
    LET stops == {i \in 1..Len(s) : s[i] \in LineTerminators}
        reach == IF stops = {} THEN Len(s)
                 ELSE (CHOOSE i \in stops : \A j \in stops : i <= j) - 1
        seps == {i \in 1..reach : s[i] \in Separators}
    IN  IF seps = {} THEN s
        ELSE SubSeq(s, (CHOOSE i \in seps : \A j \in seps : i >= j) + 1, Len(s))

----------------------------------------------------------------------------
(* Constants of the client *)

DEFAULT_BASE_URL ==
    << "h","t","t","p","s",":","/","/","s","t","e","m","-","s","e","p","a","r",
       "a","t","o","r","-","a","p","i","-","p","r","o","d","u","c","t","i","o",
       "n",".","u","p",".","r","a","i","l","w","a","y",".","a","p","p" >>
DEFAULT_TIMEOUT_MS == 300000
HEALTH_TIMEOUT_MS == 10000
API_PATH_SEPARATE == << "/","a","p","i","/","v","1","/","s","e","p","a","r","a","t","e" >>
API_PATH_DOWNLOAD == << "/","a","p","i","/","v","1","/","s","e","p","a","r","a","t","e" >>
API_PATH_HEALTH == << "/","h","e","a","l","t","h" >>
DEFAULT_FILENAME == << "a","u","d","i","o" >>
VALID_STEMS ==
    { << "2","s","t","e","m","s" >>, << "4","s","t","e","m","s" >>,
      << "5","s","t","e","m","s" >> }

----------------------------------------------------------------------------
(* Errors and outcomes *)

ErrorCode ==
    [INVALID_ARGUMENT |-> "INVALID_ARGUMENT", API_ERROR |-> "API_ERROR",
     NETWORK_ERROR |-> "NETWORK_ERROR", TIMEOUT |-> "TIMEOUT",
     INVALID_RESPONSE |-> "INVALID_RESPONSE"]

ErrorCodes ==
    {"INVALID_ARGUMENT", "API_ERROR", "NETWORK_ERROR", "TIMEOUT", "INVALID_RESPONSE"}

\* a message that is the text of a run-time string
Text(s) == [chars |-> s]

\* a message fixed in the source text
Lit(text) == [lit |-> text]
\* a message computed from data: a tag naming the template and its arguments
Tpl(text, args) == [tpl |-> text, args |-> args]

\* new StemSeparatorError(message, {code, status, cause})
StemSeparatorError(message, code, status, cause) ==
    [name |-> "StemSeparatorError", message |-> message, code |-> code,
     status |-> status, cause |-> cause]

\* an error of the host runtime or of a library, not raised by this client
RawError(name, message) == [name |-> name, message |-> message]

IsStemSeparatorError(e) == e.name = "StemSeparatorError"

\* a function returns v / a function throws e
Return(v) == [ok |-> TRUE, value |-> v]
Throw(e) == [ok |-> FALSE, error |-> e]

----------------------------------------------------------------------------
(* Validation *)

assertValidFileInput(file) ==
    IF IsNullish(file)
    THEN Throw(StemSeparatorError(Lit("file is required"),
                                  ErrorCode.INVALID_ARGUMENT, Undefined, Undefined))
    ELSE IF TypeOf(file) = "string" /\ Len(Trim(file.s)) = 0
    THEN Throw(StemSeparatorError(Lit("file path cannot be empty"),
                                  ErrorCode.INVALID_ARGUMENT, Undefined, Undefined))
    ELSE Return(Undefined)

normalizeBaseUrl(baseUrl) ==
    LET trimmed == Trim(baseUrl)
    IN  IF Len(trimmed) = 0
        THEN Throw(StemSeparatorError(Lit("baseUrl is required"),
                                      ErrorCode.INVALID_ARGUMENT, Undefined, Undefined))
        ELSE Return(StripTrailingSlashes(trimmed))

\* assertValidJobId with the backslash left out of the path-segment test
assertValidJobIdNoBackslash(jobId) ==
    LET trimmed == IF IsNullish(jobId) THEN <<>> ELSE Trim(jobId.s)
    IN  IF Len(trimmed) = 0
        THEN Throw(StemSeparatorError(Lit("jobId is required"),
                                      ErrorCode.INVALID_ARGUMENT, Undefined, Undefined))
        ELSE IF Includes(trimmed, <<".", ".">>) \/ Includes(trimmed, <<"/">>)
        THEN Throw(StemSeparatorError(Lit("jobId must not contain path segments"),
                                      ErrorCode.INVALID_ARGUMENT, Undefined, Undefined))
        ELSE Return(Undefined)

\* jobId is a string value, null or undefined (jobId?.trim())
assertValidJobId(jobId) ==
    LET trimmed == IF IsNullish(jobId) THEN <<>> ELSE Trim(jobId.s)
    IN  IF Len(trimmed) = 0
        THEN Throw(StemSeparatorError(Lit("jobId is required"),
                                      ErrorCode.INVALID_ARGUMENT, Undefined, Undefined))
        ELSE IF \/ Includes(trimmed, <<".", ".">>)
                \/ Includes(trimmed, <<"/">>)
                \/ Includes(trimmed, <<"\\">>)
        THEN Throw(StemSeparatorError(Lit("jobId must not contain path segments"),
                                      ErrorCode.INVALID_ARGUMENT, Undefined, Undefined))
        ELSE Return(Undefined)

sanitizeFilename(filename) ==
    IF Includes(filename, <<".", ".">>)
    THEN Throw(StemSeparatorError(Lit("filename must not contain .."),
                                  ErrorCode.INVALID_ARGUMENT, Undefined, Undefined))
    ELSE LET base == Trim(StripDirPrefix(filename))
         IN  IF Len(base) = 0
             THEN Throw(StemSeparatorError(
                            Lit("filename is required and must not be empty"),
                            ErrorCode.INVALID_ARGUMENT, Undefined, Undefined))
             ELSE Return(base)

----------------------------------------------------------------------------
(* Request building *)

\* characters encodeURIComponent leaves as they are
UriUnreserved ==
    {"a", "b", "c", "d", "e", "f", "g", "h", "i", "j", "k", "l", "m", "n", "o", "p",
     "q", "r", "s", "t", "u", "v", "w", "x", "y", "z", "0", "1", "2", "3", "4", "5",
     "6", "7", "8", "9", "-", "_", ".", "!", "~", "*", "'", "(", ")"}

\* the escape of one character outside the unreserved set: its UTF-8 bytes
PercentEscape(c) ==
    CASE c = " " -> <<"%", "2", "0">>
      [] c = "/" -> <<"%", "2", "F">>
      [] c = "\\" -> <<"%", "5", "C">>
      [] c = "\n" -> <<"%", "0", "A">>
      [] c = "\r" -> <<"%", "0", "D">>
      [] c = "\t" -> <<"%", "0", "9">>
      [] c = "\f" -> <<"%", "0", "C">>
      [] c = ":" -> <<"%", "3", "A">>
      [] c = "%" -> <<"%", "2", "5">>
      [] c = "U+00A0" -> <<"%", "C", "2", "%", "A", "0">>
      [] c = "U+2028" -> <<"%", "E", "2", "%", "8", "0", "%", "A", "8">>
      [] c = "U+2029" -> <<"%", "E", "2", "%", "8", "0", "%", "A", "9">>

\* UTF-16 code units that are one half of a pair: a high surrogate followed by
\* a low one is a character (here U+10000), either of them alone is none
HighSurrogates == {"U+D800"}
LowSurrogates == {"U+DC00"}

\* the escapes of a string in which no surrogate stands alone
RECURSIVE PercentEncode(_)
PercentEncode(s) ==
    IF s = <<>> THEN <<>>
    ELSE IF Head(s) \in HighSurrogates
    THEN <<"%", "F", "0", "%", "9", "0", "%", "8", "0", "%", "8", "0">>
         \o PercentEncode(Tail(Tail(s)))
    ELSE (IF Head(s) \in UriUnreserved THEN <<Head(s)>> ELSE PercentEscape(Head(s)))
         \o PercentEncode(Tail(s))

\* encodeURIComponent(s): throws URIError when a surrogate stands alone
encodeURIComponent(s) ==
    IF \A i \in 1..Len(s) :
           /\ s[i] \in HighSurrogates => (i < Len(s) /\ s[i + 1] \in LowSurrogates)
           /\ s[i] \in LowSurrogates => (i > 1 /\ s[i - 1] \in HighSurrogates)
    THEN Return(PercentEncode(s))
    ELSE Throw(RawError("URIError", Text(<<"U", "R", "I", " ", "m", "a", "l", "f", "o", "r", "m", "e", "d">>)))

\* characters URLSearchParams.toString() leaves as they are
FormUnreserved == (UriUnreserved \ {"!", "~", "'", "(", ")"})

RECURSIVE FormUrlEncode(_)
FormUrlEncode(s) ==
    IF s = <<>> THEN <<>>
    ELSE (IF Head(s) \in FormUnreserved THEN <<Head(s)>>
          ELSE IF Head(s) = " " THEN <<"+">>
          ELSE PercentEscape(Head(s)))
         \o FormUrlEncode(Tail(s))

VALID_FORMATS == { <<"w", "a", "v">>, <<"m", "p", "3">>, <<"f", "l", "a", "c">>, <<"m", "4", "a">>, <<"a", "a", "c">>, <<"o", "g", "g">> }

\* a string option is truthy when it is a non-empty string
Truthy(v) == v.t = "string" /\ v.s # <<>>

\* buildSeparateQueryString emitting every bitrate that is not the empty string,
\* as it was given
buildSeparateQueryStringRawBitrate(options) ==
    LET stems == IF Truthy(options.stems) /\ options.stems.s \in VALID_STEMS
                 THEN << <<"s", "t", "e", "m", "s", "=">> \o FormUrlEncode(options.stems.s) >> ELSE <<>>
        bitrate == IF Truthy(options.bitrate)
                   THEN << <<"b", "i", "t", "r", "a", "t", "e", "=">> \o FormUrlEncode(options.bitrate.s) >>
                   ELSE <<>>
        format == IF Truthy(options.format) /\ options.format.s \in VALID_FORMATS
                  THEN << <<"f", "o", "r", "m", "a", "t", "=">> \o FormUrlEncode(options.format.s) >> ELSE <<>>
        params == stems \o bitrate \o format
        qs == IF params = <<>> THEN <<>>
              ELSE IF Len(params) = 1 THEN params[1]
              ELSE IF Len(params) = 2 THEN params[1] \o <<"&">> \o params[2]
              ELSE params[1] \o <<"&">> \o params[2] \o <<"&">> \o params[3]
    IN  IF qs = <<>> THEN <<>> ELSE <<"?">> \o qs

buildSeparateQueryString(options) ==
    LET stems == IF Truthy(options.stems) /\ options.stems.s \in VALID_STEMS
                 THEN << <<"s", "t", "e", "m", "s", "=">> \o FormUrlEncode(options.stems.s) >> ELSE <<>>
        bitrate == IF Truthy(options.bitrate) /\ Len(Trim(options.bitrate.s)) > 0
                   THEN << <<"b", "i", "t", "r", "a", "t", "e", "=">> \o FormUrlEncode(Trim(options.bitrate.s)) >>
                   ELSE <<>>
        format == IF Truthy(options.format) /\ options.format.s \in VALID_FORMATS
                  THEN << <<"f", "o", "r", "m", "a", "t", "=">> \o FormUrlEncode(options.format.s) >> ELSE <<>>
        params == stems \o bitrate \o format
        qs == IF params = <<>> THEN <<>>
              ELSE IF Len(params) = 1 THEN params[1]
              ELSE IF Len(params) = 2 THEN params[1] \o <<"&">> \o params[2]
              ELSE params[1] \o <<"&">> \o params[2] \o <<"&">> \o params[3]
    IN  IF qs = <<>> THEN <<>> ELSE <<"?">> \o qs

\* getAuthHeaders sending every non-empty apiKey as it was given
getAuthHeadersUntrimmed(apiKey) ==
    IF apiKey # <<>>
    THEN [Authorization |-> Str(<<"B", "e", "a", "r", "e", "r", " ">> \o apiKey), ContentType |-> Absent]
    ELSE [Authorization |-> Absent, ContentType |-> Absent]

\* the headers object: the Authorization value, or Absent
getAuthHeaders(apiKey) ==
    IF apiKey # <<>> /\ Len(Trim(apiKey)) > 0
    THEN [Authorization |-> Str(<<"B", "e", "a", "r", "e", "r", " ">> \o Trim(apiKey)), ContentType |-> Absent]
    ELSE [Authorization |-> Absent, ContentType |-> Absent]

\* path.basename(p) (POSIX): trailing slashes dropped, then the last segment
Basename(p) ==
    LET q == StripTrailingSlashes(p)
        seps == {i \in 1..Len(q) : q[i] = "/"}
    IN  IF seps = {} THEN q
        ELSE SubSeq(q, (CHOOSE i \in seps : \A j \in seps : i >= j) + 1, Len(q))

\* FormData.prototype.append(name, value, filename) of the platform: with a
\* third argument the value must be a Blob (or File), or the call throws
NativeAppend(content, filename) ==
    IF content.t = "Blob"
    THEN Return([builder |-> "FormData", part |-> "file", content |-> content,
                 filename |-> filename])
    ELSE Throw(RawError("TypeError", Text(<<"p", "a", "r", "a", "m", "e", "t", "e", "r", " ", "2", " ", "i", "s", " ", "n", "o", "t", " ", "o", "f", " ", "t", "y", "p", "e", " ", "'", "B", "l", "o", "b", "'">>)))

\* append(name, value, {filename}) of the form-data package: a Buffer is taken
\* as it is, every other object is taken for a stream and its on() is called
PackageAppend(content, filename) ==
    IF content.t \in {"Buffer", "ReadStream", "Readable"}
    THEN Return([builder |-> "form-data", part |-> "file", content |-> content,
                 filename |-> filename])
    ELSE Throw(RawError("TypeError", Text(<<"s", "o", "u", "r", "c", "e", ".", "o", "n", " ", "i", "s", " ", "n", "o", "t", " ", "a", " ", "f", "u", "n", "c", "t", "i", "o", "n">>)))

\* form.getHeaders() of the form-data package
PackageHeaders ==
    [ContentType |-> Str(<<"m", "u", "l", "t", "i", "p", "a", "r", "t", "/", "f", "o", "r", "m", "-", "d", "a", "t", "a", ";", " ", "b", "o", "u", "n", "d", "a", "r", "y", "=", "x">>)]

\* the multipart form and the headers its builder asks for, or what the
\* builder throws; where FormData exists the first test reads the global File,
\* which a runtime may lack (Node 18)
createForm(file, filename, e) ==
    LET streamName == IF Basename(file.s) # <<>> THEN Basename(file.s) ELSE filename
        stream == [t |-> "ReadStream", path |-> file.s]
        form == IF e.formData /\ file.t = "Blob" THEN NativeAppend(file, filename)
                ELSE IF e.formData /\ TypeOf(file) = "string"
                THEN NativeAppend(stream, streamName)
                ELSE IF e.formData THEN NativeAppend(file, filename)
                ELSE IF TypeOf(file) = "string" THEN PackageAppend(stream, streamName)
                ELSE PackageAppend(file, filename)
    IN  IF e.formData /\ ~e.file
        THEN Throw(RawError("ReferenceError", Text(<<"F", "i", "l", "e", " ", "i", "s", " ", "n", "o", "t", " ", "d", "e", "f", "i", "n", "e", "d">>)))
        ELSE IF ~form.ok THEN form
        ELSE Return([form |-> form.value,
                     formHeaders |-> IF e.formData THEN [ContentType |-> Absent]
                                     ELSE PackageHeaders])

\* Object.assign(headers, formHeaders)
MergeHeaders(headers, formHeaders) ==
    [headers EXCEPT !.ContentType = formHeaders.ContentType]

----------------------------------------------------------------------------
(* Response parsing and error mapping *)

\* message.includes(sub): the messages fixed in the source that reach this test
\* (those of parseSeparateResponse) do not contain the word looked for
MessageIncludes(message, sub) ==
    "chars" \in DOMAIN message /\ Includes(message.chars, sub)

\* the filter of output_files without the test for empty strings
IsStringEntry(f) == f.t = "string"

IsNonEmptyString(f) == f.t = "string" /\ Len(f.s) > 0

\* parseSeparateResponse with the job_id check moved before the success checks
parseSeparateResponseJobIdFirst(body) ==
    IF IsNullish(body) \/ TypeOf(body) # "object"
    THEN Throw(StemSeparatorError(Lit("API response is not an object"),
                                  ErrorCode.INVALID_RESPONSE, Undefined, Undefined))
    ELSE
    LET success == Get(body, "success")
        jobId == Get(body, "job_id")
        outputFiles == Get(body, "output_files")
        message == Get(body, "message")
        status == Get(body, "status")
        stems == Get(body, "stems")
        time == Get(body, "processing_time")
    IN  IF TypeOf(jobId) # "string" \/ Len(Trim(jobId.s)) = 0
        THEN Throw(StemSeparatorError(Lit("API response missing valid job_id"),
                                      ErrorCode.INVALID_RESPONSE, Undefined, Undefined))
        ELSE IF success = Bool(FALSE)
        THEN Throw(StemSeparatorError(
                 IF TypeOf(message) = "string" THEN Text(message.s)
                 ELSE Lit("Separation failed"),
                 ErrorCode.API_ERROR,
                 IF TypeOf(status) = "number" THEN status ELSE Undefined,
                 Undefined))
        ELSE IF success # Bool(TRUE)
        THEN Throw(StemSeparatorError(Lit("API response missing success: true"),
                                      ErrorCode.INVALID_RESPONSE, Undefined, Undefined))
        ELSE IF outputFiles.t # "array"
        THEN Throw(StemSeparatorError(Lit("API response missing output_files array"),
                                      ErrorCode.INVALID_RESPONSE, Undefined, Undefined))
        ELSE Return(
            [success |-> Bool(TRUE),
             message |-> IF TypeOf(message) = "string" THEN message ELSE Str(<<>>),
             job_id |-> jobId,
             stems |-> IF TypeOf(stems) = "string" /\ stems.s \in VALID_STEMS
                       THEN stems ELSE Str(<<"2", "s", "t", "e", "m", "s">>),
             output_files |-> Arr(SelectSeq(outputFiles.items, IsNonEmptyString)),
             processing_time |->
                 IF TypeOf(time) = "number" /\ NumGeq(time, 0) THEN time ELSE Num(0)])

parseSeparateResponse(body) ==
    IF IsNullish(body) \/ TypeOf(body) # "object"
    THEN Throw(StemSeparatorError(Lit("API response is not an object"),
                                  ErrorCode.INVALID_RESPONSE, Undefined, Undefined))
    ELSE
    LET success == Get(body, "success")
        jobId == Get(body, "job_id")
        outputFiles == Get(body, "output_files")
        message == Get(body, "message")
        status == Get(body, "status")
        stems == Get(body, "stems")
        time == Get(body, "processing_time")
    IN  IF success = Bool(FALSE)
        THEN Throw(StemSeparatorError(
                 IF TypeOf(message) = "string" THEN Text(message.s)
                 ELSE Lit("Separation failed"),
                 ErrorCode.API_ERROR,
                 IF TypeOf(status) = "number" THEN status ELSE Undefined,
                 Undefined))
        ELSE IF success # Bool(TRUE)
        THEN Throw(StemSeparatorError(Lit("API response missing success: true"),
                                      ErrorCode.INVALID_RESPONSE, Undefined, Undefined))
        ELSE IF TypeOf(jobId) # "string" \/ Len(Trim(jobId.s)) = 0
        THEN Throw(StemSeparatorError(Lit("API response missing valid job_id"),
                                      ErrorCode.INVALID_RESPONSE, Undefined, Undefined))
        ELSE IF outputFiles.t # "array"
        THEN Throw(StemSeparatorError(Lit("API response missing output_files array"),
                                      ErrorCode.INVALID_RESPONSE, Undefined, Undefined))
        ELSE Return(
            [success |-> Bool(TRUE),
             message |-> IF TypeOf(message) = "string" THEN message ELSE Str(<<>>),
             job_id |-> jobId,
             stems |-> IF TypeOf(stems) = "string" /\ stems.s \in VALID_STEMS
                       THEN stems ELSE Str(<<"2", "s", "t", "e", "m", "s">>),
             output_files |-> Arr(SelectSeq(outputFiles.items, IsNonEmptyString)),
             processing_time |->
                 IF TypeOf(time) = "number" /\ NumGeq(time, 0) THEN time ELSE Num(0)])

\* err.response != null, for a library error or an error of this client
HasResponse(err) == "response" \in DOMAIN err /\ ~IsNullish(err.response)

\* throwAxiosError handing the status of the error it caught to the error it
\* throws
throwAxiosErrorKeepsStatus(err, messages) ==
    LET kept == IF "status" \in DOMAIN err THEN err.status ELSE Undefined
    IN  IF HasResponse(err)
        THEN LET status == err.response.status
                 data == err.response.data
             IN  StemSeparatorError(
                     IF TypeOf(data) = "object" /\ ~IsNullish(data) /\ HasProp(data, "detail")
                     THEN Tpl("String(detail)", <<Get(data, "detail")>>)
                     ELSE Tpl("API error: ${status}", <<status>>),
                     ErrorCode.API_ERROR, status, err)
        ELSE IF MessageIncludes(err.message, <<"t", "i", "m", "e", "o", "u", "t">>)
        THEN StemSeparatorError(messages.onTimeout, ErrorCode.TIMEOUT, kept, err)
        ELSE StemSeparatorError(IF err.message = Undefined THEN messages.onNetwork
                                ELSE err.message,
                                ErrorCode.NETWORK_ERROR, kept, err)

\* throwAxiosError looking for 'timeout' in the message before it looks for a
\* response
throwAxiosErrorTimeoutFirst(err, messages) ==
    IF MessageIncludes(err.message, <<"t", "i", "m", "e", "o", "u", "t">>)
    THEN StemSeparatorError(messages.onTimeout, ErrorCode.TIMEOUT, Undefined, err)
    ELSE IF HasResponse(err)
    THEN LET status == err.response.status
             data == err.response.data
         IN  StemSeparatorError(
                 IF TypeOf(data) = "object" /\ ~IsNullish(data) /\ HasProp(data, "detail")
                 THEN Tpl("String(detail)", <<Get(data, "detail")>>)
                 ELSE Tpl("API error: ${status}", <<status>>),
                 ErrorCode.API_ERROR, status, err)
    ELSE StemSeparatorError(IF err.message = Undefined THEN messages.onNetwork
                            ELSE err.message,
                            ErrorCode.NETWORK_ERROR, Undefined, err)

\* throwAxiosError(err, messages): the error it throws
throwAxiosError(err, messages) ==
    IF HasResponse(err)
    THEN LET status == err.response.status
             data == err.response.data
         IN  StemSeparatorError(
                 IF TypeOf(data) = "object" /\ ~IsNullish(data) /\ HasProp(data, "detail")
                 THEN Tpl("String(detail)", <<Get(data, "detail")>>)
                 ELSE Tpl("API error: ${status}", <<status>>),
                 ErrorCode.API_ERROR, status, err)
    ELSE IF MessageIncludes(err.message, <<"t", "i", "m", "e", "o", "u", "t">>)
    THEN StemSeparatorError(messages.onTimeout, ErrorCode.TIMEOUT, Undefined, err)
    ELSE StemSeparatorError(IF err.message = Undefined THEN messages.onNetwork
                            ELSE err.message,
                            ErrorCode.NETWORK_ERROR, Undefined, err)

----------------------------------------------------------------------------
(* The client's constructor *)

NoClient == [state |-> "none"]
NoCalls == <<>>
DefaultEnv == [fetch |-> TRUE, formData |-> TRUE, file |-> TRUE]

\* new StemSeparatorClient(options): the fields of the instance, or the throw
constructor(options) ==
    LET given == IF IsNullish(options.baseUrl) THEN DEFAULT_BASE_URL
                 ELSE Trim(options.baseUrl.s)
        baseUrl == normalizeBaseUrl(given)
        apiKey == IF IsNullish(options.apiKey) THEN <<>> ELSE options.apiKey.s
        timeout == IF IsNullish(options.timeout) THEN Num(DEFAULT_TIMEOUT_MS)
                   ELSE options.timeout
    IN  IF ~baseUrl.ok THEN baseUrl
        ELSE IF TypeOf(timeout) # "number" \/ NumLess(timeout, 1)
        THEN Throw(StemSeparatorError(Lit("timeout must be a positive number"),
                                      ErrorCode.INVALID_ARGUMENT, Undefined, Undefined))
        ELSE Return([baseUrl |-> baseUrl.value, apiKey |-> apiKey,
                     timeout |-> timeout])

\* the state a constructor call leaves behind
Constructed(options) ==
    LET r == constructor(options)
    IN  IF r.ok
        THEN [state |-> "constructed", options |-> options,
              baseUrl |-> r.value.baseUrl, apiKey |-> r.value.apiKey,
              timeout |-> r.value.timeout]
        ELSE [state |-> "failed", options |-> options, error |-> r.error]

Construct(baseUrls, apiKeys, timeouts) ==
    /\ client.state = "none"
    /\ \E b \in baseUrls, k \in apiKeys, t \in timeouts : client' = Constructed([baseUrl |-> b, apiKey |-> k, timeout |-> t])
    /\ UNCHANGED <<env, calls, fn, arg, out>>

\* option values tried on the constructor
BaseUrlOptions == {Undefined, Null} \cup {Str(s) : s \in StringsUpTo(MaxLen)}
ApiKeyOptions == {Undefined, Str(<<>>), Str(<<"k">>), Str(<<" ", "k", " ">>)}
TimeoutOptions ==
    {Undefined, Null, Num(-1), Num(0), Num(1), Num(2), Num(5000), Half(0), Half(1),
     Half(-1), NaN, Infinity, Str(<<"5">>), Bool(TRUE)}

ConstructAny == Construct(BaseUrlOptions, ApiKeyOptions, TimeoutOptions)

InitCtor ==
    /\ env = DefaultEnv
    /\ client = NoClient
    /\ calls = NoCalls
    /\ fn = "none"
    /\ arg = <<>>
    /\ out = <<>>

NextCtor == ConstructAny

SpecCtor == InitCtor /\ [][NextCtor]_vars

----------------------------------------------------------------------------
(* Calls of the client's methods: entry, up to the first await *)

\* a call slot no method is running in
IdleCall ==
    [op |-> "none", pc |-> "idle", args |-> <<>>, requests |-> <<>>,
     timer |-> "none", aborted |-> FALSE, late |-> FALSE, awaited |-> Undefined,
     res |-> Undefined, result |-> Undefined]

\* the call ends: result is what its caller receives
Finish(call, result) == [call EXCEPT !.pc = "done", !.result = result]

NoHeaders == [Authorization |-> Absent, ContentType |-> Absent]

\* the request leaves through axios when the runtime has no fetch, and through
\* fetchWithTimeout (which arms the call's timer first) when it has
StartRequest(call, e, method, url, headers, timeout, body, responseType) ==
    LET req == [transport |-> IF e.fetch THEN "fetch" ELSE "axios",
                method |-> method, url |-> url, headers |-> headers,
                timeout |-> timeout, body |-> body, responseType |-> responseType]
    IN  IF e.fetch
        THEN [call EXCEPT !.pc = "fetch", !.timer = "armed",
                          !.requests = Append(@, req)]
        ELSE [call EXCEPT !.pc = "axios", !.requests = Append(@, req)]

\* separate with the request sent before the filename option is checked
separateEntrySendsFirst(call, cl, e, file, options) ==
    LET valid == assertValidFileInput(file)
        given == IF IsNullish(options.filename) THEN <<>>
                 ELSE Trim(options.filename.s)
        filename == IF Len(given) > 0 THEN sanitizeFilename(given)
                    ELSE Return(DEFAULT_FILENAME)
        url == cl.baseUrl \o API_PATH_SEPARATE \o buildSeparateQueryString(options)
        built == createForm(file, IF filename.ok THEN filename.value ELSE given, e)
        headers == MergeHeaders(getAuthHeaders(cl.apiKey), built.value.formHeaders)
        sent == StartRequest(call, e, "POST", url, headers, cl.timeout,
                             built.value.form, "json")
    IN  IF ~valid.ok THEN Finish(call, valid)
        ELSE IF ~built.ok THEN Finish(call, built)
        ELSE IF ~filename.ok THEN Finish(sent, filename)
        ELSE sent

\* separate(file, options) up to its first await
separateEntry(call, cl, e, file, options) ==
    LET valid == assertValidFileInput(file)
        given == IF IsNullish(options.filename) THEN <<>>
                 ELSE Trim(options.filename.s)
        filename == IF Len(given) > 0 THEN sanitizeFilename(given)
                    ELSE Return(DEFAULT_FILENAME)
    IN  IF ~valid.ok THEN Finish(call, valid)
        ELSE IF ~filename.ok THEN Finish(call, filename)
        ELSE LET url == cl.baseUrl \o API_PATH_SEPARATE
                        \o buildSeparateQueryString(options)
                 built == createForm(file, filename.value, e)
             IN  IF ~built.ok THEN Finish(call, built)
                 ELSE StartRequest(call, e, "POST", url,
                                   MergeHeaders(getAuthHeaders(cl.apiKey),
                                                built.value.formHeaders),
                                   cl.timeout, built.value.form, "json")

\* getStemDownloadUrl(jobId, filename)
getStemDownloadUrl(cl, jobId, filename) ==
    LET valid == assertValidJobId(jobId)
        safeName == sanitizeFilename(filename)
        encodedJob == encodeURIComponent(jobId.s)
        encodedFile == encodeURIComponent(safeName.value)
    IN  IF ~valid.ok THEN valid
        ELSE IF ~safeName.ok THEN safeName
        ELSE IF ~encodedJob.ok THEN encodedJob
        ELSE IF ~encodedFile.ok THEN encodedFile
        ELSE Return(cl.baseUrl \o API_PATH_DOWNLOAD \o <<"/">>
                    \o encodedJob.value \o <<"/", "d", "o", "w", "n", "l", "o", "a", "d", "/">>
                    \o encodedFile.value)

\* downloadStem(jobId, filename) up to its first await
downloadStemEntry(call, cl, e, jobId, filename) ==
    LET valid == assertValidJobId(jobId)
        safeName == sanitizeFilename(filename)
        url == getStemDownloadUrl(cl, jobId, filename)
    IN  IF ~valid.ok THEN Finish(call, valid)
        ELSE IF ~safeName.ok THEN Finish(call, safeName)
        ELSE IF ~url.ok THEN Finish(call, url)
        ELSE StartRequest(call, e, "GET", url.value, getAuthHeaders(cl.apiKey),
                          cl.timeout, Undefined, "arraybuffer")

\* checkHealth sent like the other requests: the client's timeout and its
\* Authorization header
checkHealthEntryAsOthers(call, cl, e) ==
    StartRequest(call, e, "GET", cl.baseUrl \o API_PATH_HEALTH,
                 getAuthHeaders(cl.apiKey), cl.timeout, Undefined, "json")

\* checkHealth() up to its first await
checkHealthEntry(call, cl, e) ==
    StartRequest(call, e, "GET", cl.baseUrl \o API_PATH_HEALTH, NoHeaders,
                 Num(HEALTH_TIMEOUT_MS), Undefined, "json")

Separate(files, optionSet) ==
    /\ client.state = "constructed"
    /\ \E c \in DOMAIN calls :
          /\ calls[c].pc = "idle"
          /\ \E file \in files, options \in optionSet : calls' = [calls EXCEPT ![c] =
                 separateEntry([@ EXCEPT !.op = "separate", !.args = <<file, options>>],
                               client, env, file, options)]
    /\ UNCHANGED <<env, client, fn, arg, out>>

GetStemDownloadUrl(jobIds, filenames) ==
    /\ client.state = "constructed"
    /\ \E c \in DOMAIN calls :
          /\ calls[c].pc = "idle"
          /\ \E jobId \in jobIds, filename \in filenames : calls' = [calls EXCEPT ![c] =
                 Finish([@ EXCEPT !.op = "getStemDownloadUrl",
                                  !.args = <<jobId, filename>>],
                        getStemDownloadUrl(client, jobId, filename))]
    /\ UNCHANGED <<env, client, fn, arg, out>>

DownloadStem(jobIds, filenames) ==
    /\ client.state = "constructed"
    /\ \E c \in DOMAIN calls :
          /\ calls[c].pc = "idle"
          /\ \E jobId \in jobIds, filename \in filenames : calls' = [calls EXCEPT ![c] =
                 downloadStemEntry([@ EXCEPT !.op = "downloadStem",
                                             !.args = <<jobId, filename>>],
                                   client, env, jobId, filename)]
    /\ UNCHANGED <<env, client, fn, arg, out>>

CheckHealth ==
    /\ client.state = "constructed"
    /\ \E c \in DOMAIN calls :
          /\ calls[c].pc = "idle"
          /\ calls' = [calls EXCEPT ![c] =
                 checkHealthEntry([@ EXCEPT !.op = "checkHealth"], client, env)]
    /\ UNCHANGED <<env, client, fn, arg, out>>

\* the caller has received the outcome; the slot is free for the next call
Settle ==
    /\ \E c \in DOMAIN calls :
          /\ calls[c].pc = "done"
          /\ calls' = [calls EXCEPT ![c] = IdleCall]
    /\ UNCHANGED <<env, client, fn, arg, out>>

----------------------------------------------------------------------------
(* The remote's answers *)

\* res.ok
Ok(r) == r.status.n \in 200..299

JsonBody(v) == [kind |-> "json", value |-> v]
\* a body that is not JSON
TextBody == [kind |-> "text", text |-> <<"o", "o", "p", "s">>]
\* a response without body
NoBody == [kind |-> "none"]
\* a body whose stream fails while it is read
BrokenBody == [kind |-> "broken"]

Response(status, body) == [status |-> Num(status), body |-> body]

\* the bytes of a body
ArrayBuffer(body) == [t |-> "ArrayBuffer", of |-> body]

RECURSIVE DigitsOf(_)
DigitsOf(n) ==
    LET d == << "0","1","2","3","4","5","6","7","8","9" >>
    IN  IF n < 10 THEN <<d[n + 1]>> ELSE DigitsOf(n \div 10) \o <<d[(n % 10) + 1]>>

\* String(x) for a number value
NumberToString(x) ==
    CASE x.k = "int" -> IF x.n < 0 THEN <<"-">> \o DigitsOf(-x.n) ELSE DigitsOf(x.n)
      [] x.k = "half" -> IF x.n < 0 THEN <<"-">> \o DigitsOf(-x.n - 1) \o <<".", "5">>
                         ELSE DigitsOf(x.n) \o <<".", "5">>
      [] x.k = "NaN" -> <<"N", "a", "N">>
      [] x.k = "Infinity" -> <<"I", "n", "f", "i", "n", "i", "t", "y">>

\* what axios rejects with
AxiosError(message, response) ==
    [name |-> "AxiosError", message |-> message, response |-> response]

\* res.data of axios for a received body
AxiosData(body, responseType) ==
    IF responseType = "arraybuffer" THEN ArrayBuffer(body)
    ELSE CASE body.kind = "json" -> body.value
           [] body.kind = "text" -> Str(body.text)
           [] body.kind = "none" -> Str(<<>>)

----------------------------------------------------------------------------
(* fetchWithTimeout and what follows it in each method *)

\* fetch() resolves with the response headers: fetchWithTimeout returns the
\* response through its finally, which clears the timer; the method is still at
\* its await
fetchResolved(call, r) ==
    [call EXCEPT !.pc = "fetched", !.timer = "cleared", !.awaited = Return(r)]

\* the method resumes with the response fetchWithTimeout returned and runs on
\* to its next await, or to its end
afterFetch(call, r) ==
    LET c1 == [call EXCEPT !.res = r]
    IN  CASE call.op = "separate" -> [c1 EXCEPT !.pc = "json"]
          [] call.op = "downloadStem" ->
                IF ~Ok(r) THEN [c1 EXCEPT !.pc = "text"]
                ELSE [c1 EXCEPT !.pc = "arrayBuffer"]
          [] call.op = "checkHealth" ->
                IF ~Ok(r)
                THEN Finish(c1, Throw(StemSeparatorError(
                         Tpl("Health check failed: ${res.status}", <<r.status>>),
                         ErrorCode.API_ERROR, r.status, Undefined)))
                ELSE [c1 EXCEPT !.pc = "json"]

FetchResponds(responses) ==
    /\ \E c \in DOMAIN calls :
          /\ calls[c].pc = "fetch"
          /\ calls[c].timer = "armed"
          /\ \E r \in responses : calls' = [calls EXCEPT ![c] = fetchResolved(@, r)]
    /\ UNCHANGED <<env, client, fn, arg, out>>

\* await fetchWithTimeout(...) in the method: the response, or the error thrown on
afterFetchWithTimeout(call) ==
    IF call.awaited.ok THEN afterFetch(call, call.awaited.value)
    ELSE Finish(call, call.awaited)

\* the promise job after the one that ended fetchWithTimeout
MethodResumes ==
    /\ \E c \in DOMAIN calls :
          /\ calls[c].pc = "fetched"
          /\ calls' = [calls EXCEPT ![c] = afterFetchWithTimeout(@)]
    /\ UNCHANGED <<env, client, fn, arg, out>>

\* what fetch() may reject with besides an abort
FetchFailures ==
    {RawError("TypeError", Text(<<"F", "a", "i", "l", "e", "d", " ", "t", "o", " ", "f", "e", "t", "c", "h">>)), [name |-> "not an Error"]}

\* the catch of fetchWithTimeout sending the request once more after a failure
fetchRejectedRetries(call, err) ==
    [call EXCEPT !.timer = "armed",
                 !.requests = Append(@, call.requests[Len(call.requests)])]

\* the catch and finally of fetchWithTimeout for a rejection that is no abort:
\* the error is thrown to the method, which is still at its await
fetchRejected(call, err) ==
    [call EXCEPT !.pc = "fetched", !.timer = "cleared",
                 !.awaited = Throw(StemSeparatorError(
                     IF "message" \in DOMAIN err THEN err.message
                     ELSE Lit("Network request failed"),
                     ErrorCode.NETWORK_ERROR, Undefined, err))]

FetchFails ==
    /\ \E c \in DOMAIN calls, err \in FetchFailures :
          /\ calls[c].pc = "fetch"
          /\ calls[c].timer = "armed"
          /\ calls' = [calls EXCEPT ![c] = fetchRejected(@, err)]
    /\ UNCHANGED <<env, client, fn, arg, out>>

\* the timer's callback aborting through a controller shared by the client's
\* calls: every request in flight is aborted
TimerFiresShared ==
    /\ \E c \in DOMAIN calls :
          /\ calls[c].pc = "fetch"
          /\ calls[c].timer = "armed"
          /\ calls' = [d \in DOMAIN calls |->
                 IF d = c
                 THEN [calls[d] EXCEPT !.timer = "fired", !.aborted = TRUE,
                                       !.late = TRUE]
                 ELSE IF calls[d].pc = "fetch"
                 THEN [calls[d] EXCEPT !.aborted = TRUE]
                 ELSE calls[d]]
    /\ UNCHANGED <<env, client, fn, arg, out>>

\* the timer's callback: controller.abort()
TimerFires ==
    /\ \E c \in DOMAIN calls :
          /\ calls[c].pc = "fetch"
          /\ calls[c].timer = "armed"
          /\ calls' = [calls EXCEPT ![c] =
                 [@ EXCEPT !.timer = "fired", !.aborted = TRUE, !.late = TRUE]]
    /\ UNCHANGED <<env, client, fn, arg, out>>

\* fetchWithTimeout without its finally: the abort is reported, the timer stays
fetchAbortedNoFinally(call) ==
    LET timeoutMs == call.requests[Len(call.requests)].timeout
    IN  [call EXCEPT !.pc = "fetched",
                     !.awaited = Throw(StemSeparatorError(
                         Tpl("Request timed out after ${timeoutMs}ms", <<timeoutMs>>),
                         ErrorCode.TIMEOUT, Undefined,
                         RawError("AbortError", Text(<<"T", "h", "e", " ", "o", "p", "e", "r", "a", "t", "i", "o", "n", " ", "w", "a", "s", " ", "a", "b", "o", "r", "t", "e", "d">>))))]

\* the catch and finally of fetchWithTimeout for the AbortError
fetchAborted(call) ==
    LET timeoutMs == call.requests[Len(call.requests)].timeout
    IN  [call EXCEPT !.pc = "fetched", !.timer = "cleared",
                     !.awaited = Throw(StemSeparatorError(
                         Tpl("Request timed out after ${timeoutMs}ms", <<timeoutMs>>),
                         ErrorCode.TIMEOUT, Undefined,
                         RawError("AbortError", Text(<<"T", "h", "e", " ", "o", "p", "e", "r", "a", "t", "i", "o", "n", " ", "w", "a", "s", " ", "a", "b", "o", "r", "t", "e", "d">>))))]

FetchAborted ==
    /\ \E c \in DOMAIN calls :
          /\ calls[c].pc = "fetch"
          /\ calls[c].aborted
          /\ calls' = [calls EXCEPT ![c] = fetchAborted(@)]
    /\ UNCHANGED <<env, client, fn, arg, out>>

\* the deadline passes while the body is read: the timer is cleared already
DeadlinePasses ==
    /\ \E c \in DOMAIN calls :
          /\ calls[c].pc \in {"json", "text", "arrayBuffer"}
          /\ ~calls[c].late
          /\ calls' = [calls EXCEPT ![c] = [@ EXCEPT !.late = TRUE]]
    /\ UNCHANGED <<env, client, fn, arg, out>>

\* res.json() settles, with the body of a 2xx answer returned as it came
afterJsonUnparsed(call) ==
    LET r == call.res
    IN  IF call.op = "separate"
        THEN IF r.body.kind # "json" THEN [call EXCEPT !.pc = "text"]
             ELSE IF ~Ok(r)
             THEN Finish(call, Throw(StemSeparatorError(
                      IF /\ TypeOf(r.body.value) = "object"
                         /\ ~IsNullish(r.body.value)
                         /\ HasProp(r.body.value, "detail")
                      THEN Tpl("String(detail)", <<Get(r.body.value, "detail")>>)
                      ELSE Tpl("API error: ${res.status} ${res.statusText}",
                               <<r.status>>),
                      ErrorCode.API_ERROR, r.status, Undefined)))
             ELSE IF parseSeparateResponse(r.body.value).ok
             THEN Finish(call, Return(r.body.value.f))
             ELSE Finish(call, parseSeparateResponse(r.body.value))
        ELSE IF r.body.kind = "json" THEN Finish(call, Return(r.body.value))
             ELSE IF r.body.kind = "broken"
             THEN Finish(call, Throw(RawError("TypeError", Text(<<"t", "e", "r", "m", "i", "n", "a", "t", "e", "d">>))))
             ELSE Finish(call, Throw(RawError("SyntaxError",
                                              Text(<<"U", "n", "e", "x", "p", "e", "c", "t", "e", "d", " ", "t", "o", "k", "e", "n">>))))

\* res.json() settles
afterJson(call) ==
    LET r == call.res
    IN  IF call.op = "separate"
        THEN IF r.body.kind # "json" THEN [call EXCEPT !.pc = "text"]
             ELSE IF ~Ok(r)
             THEN Finish(call, Throw(StemSeparatorError(
                      IF /\ TypeOf(r.body.value) = "object"
                         /\ ~IsNullish(r.body.value)
                         /\ HasProp(r.body.value, "detail")
                      THEN Tpl("String(detail)", <<Get(r.body.value, "detail")>>)
                      ELSE Tpl("API error: ${res.status} ${res.statusText}",
                               <<r.status>>),
                      ErrorCode.API_ERROR, r.status, Undefined)))
             ELSE Finish(call, parseSeparateResponse(r.body.value))
        ELSE IF r.body.kind = "json" THEN Finish(call, Return(r.body.value))
             ELSE IF r.body.kind = "broken"
             THEN Finish(call, Throw(RawError("TypeError", Text(<<"t", "e", "r", "m", "i", "n", "a", "t", "e", "d">>))))
             ELSE Finish(call, Throw(RawError("SyntaxError",
                                              Text(<<"U", "n", "e", "x", "p", "e", "c", "t", "e", "d", " ", "t", "o", "k", "e", "n">>))))

JsonSettles ==
    /\ \E c \in DOMAIN calls :
          /\ calls[c].pc = "json"
          /\ calls' = [calls EXCEPT ![c] = afterJson(@)]
    /\ UNCHANGED <<env, client, fn, arg, out>>

\* res.text() settles: in separate the body was consumed by res.json() before,
\* unless the response has no body; in downloadStem it is the first read
afterText(call) ==
    LET r == call.res
    IN  IF call.op = "separate"
        THEN IF r.body.kind = "none"
             THEN Finish(call, Throw(StemSeparatorError(
                      Tpl("API error: ${res.status} ${res.statusText} - ${text}",
                          <<r.status, Str(<<>>)>>),
                      ErrorCode.API_ERROR, r.status, Undefined)))
             ELSE Finish(call, Throw(RawError("TypeError",
                                              Text(<<"B", "o", "d", "y", " ", "i", "s", " ", "u", "n", "u", "s", "a", "b", "l", "e">>))))
        ELSE IF r.body.kind = "broken"
             THEN Finish(call, Throw(RawError("TypeError", Text(<<"t", "e", "r", "m", "i", "n", "a", "t", "e", "d">>))))
             ELSE Finish(call, Throw(StemSeparatorError(
                      Tpl("Download error: ${res.status} ${res.statusText} - ${text}",
                          <<r.status, r.body>>),
                      ErrorCode.API_ERROR, r.status, Undefined)))

TextSettles ==
    /\ \E c \in DOMAIN calls :
          /\ calls[c].pc = "text"
          /\ calls' = [calls EXCEPT ![c] = afterText(@)]
    /\ UNCHANGED <<env, client, fn, arg, out>>

\* res.arrayBuffer() settles
afterArrayBuffer(call) ==
    IF call.res.body.kind = "broken"
    THEN Finish(call, Throw(RawError("TypeError", Text(<<"t", "e", "r", "m", "i", "n", "a", "t", "e", "d">>))))
    ELSE Finish(call, Return(ArrayBuffer(call.res.body)))

ArrayBufferSettles ==
    /\ \E c \in DOMAIN calls :
          /\ calls[c].pc = "arrayBuffer"
          /\ calls' = [calls EXCEPT ![c] = afterArrayBuffer(@)]
    /\ UNCHANGED <<env, client, fn, arg, out>>

----------------------------------------------------------------------------
(* The axios path of each method *)

\* the messages a method hands to throwAxiosError
axiosMessages(call) ==
    LET timeoutMs == call.requests[Len(call.requests)].timeout
    IN  CASE call.op = "separate" ->
                [onTimeout |-> Tpl("Request timed out after ${this.timeout}ms",
                                   <<timeoutMs>>),
                 onNetwork |-> Lit("Request failed")]
          [] call.op = "downloadStem" ->
                [onTimeout |-> Tpl("Download timed out after ${this.timeout}ms",
                                   <<timeoutMs>>),
                 onNetwork |-> Lit("Download failed")]
          [] call.op = "checkHealth" ->
                [onTimeout |-> Lit("Health check failed"),
                 onNetwork |-> Lit("Health check failed")]

\* axios rejects with err: the catch block of the method
axiosRejected(call, err) ==
    Finish(call, Throw(throwAxiosError(err, axiosMessages(call))))

\* axios settles for a response r of the remote: a 2xx resolves, anything else
\* rejects with the response attached, a body that fails to arrive rejects bare
afterAxios(call, r) ==
    LET req == call.requests[Len(call.requests)]
        c1 == [call EXCEPT !.res = r]
    IN  IF r.body.kind = "broken"
        THEN axiosRejected(c1, AxiosError(Text(<<"a", "b", "o", "r", "t", "e", "d">>), Undefined))
        ELSE LET data == AxiosData(r.body, req.responseType)
             IN  IF ~Ok(r)
                 THEN axiosRejected(c1, AxiosError(
                          Text(<<"R", "e", "q", "u", "e", "s", "t", " ", "f", "a", "i", "l", "e", "d", " ", "w", "i", "t", "h", " ", "s", "t", "a", "t", "u", "s", " ", "c", "o", "d", "e", " ">>
                               \o NumberToString(r.status)),
                          [t |-> "response", status |-> r.status, data |-> data]))
                 ELSE IF call.op = "separate"
                 THEN LET parsed == parseSeparateResponse(data)
                      IN  IF parsed.ok THEN Finish(c1, parsed)
                          ELSE axiosRejected(c1, parsed.error)
                 ELSE Finish(c1, Return(data))

AxiosSettles(responses) ==
    /\ \E c \in DOMAIN calls :
          /\ calls[c].pc = "axios"
          /\ \E r \in responses : calls' = [calls EXCEPT ![c] = afterAxios(@, r)]
    /\ UNCHANGED <<env, client, fn, arg, out>>

\* failures of the connection, as axios reports them
AxiosFailures ==
    {AxiosError(Text(<<"N", "e", "t", "w", "o", "r", "k", " ", "E", "r", "r", "o", "r">>), Undefined),
     AxiosError(Text(<<"c", "o", "n", "n", "e", "c", "t", " ", "E", "C", "O", "N", "N", "R", "E", "F", "U", "S", "E", "D">>), Undefined),
     AxiosError(Undefined, Undefined)}

AxiosFails ==
    /\ \E c \in DOMAIN calls, err \in AxiosFailures :
          /\ calls[c].pc = "axios"
          /\ calls' = [calls EXCEPT ![c] = axiosRejected(@, err)]
    /\ UNCHANGED <<env, client, fn, arg, out>>

\* the request's timeout elapses: axios aborts it and rejects
axiosTimedOut(call) ==
    LET timeoutMs == call.requests[Len(call.requests)].timeout
    IN  axiosRejected([call EXCEPT !.late = TRUE, !.aborted = TRUE],
                      AxiosError(Text(<<"t", "i", "m", "e", "o", "u", "t", " ", "o", "f", " ">> \o NumberToString(timeoutMs)
                                      \o <<"m", "s", " ", "e", "x", "c", "e", "e", "d", "e", "d">>), Undefined))

AxiosTimesOut ==
    /\ \E c \in DOMAIN calls :
          /\ calls[c].pc = "axios"
          /\ calls' = [calls EXCEPT ![c] = axiosTimedOut(@)]
    /\ UNCHANGED <<env, client, fn, arg, out>>

----------------------------------------------------------------------------
(* The client in use: construction, calls, and the remote's behaviour *)

Envs == [fetch : BOOLEAN, formData : BOOLEAN, file : BOOLEAN]

\* constructor options of the client in use
ClientBaseUrls == {Str(<<"a", "/">>), Str(<<" ", "b">>)}
ClientApiKeys == {Undefined, Str(<<>>), Str(<<" ">>), Str(<<" ", "k", " ">>)}
ClientTimeouts == {Undefined, Num(0), Num(5000)}

\* inputs of separate
Files ==
    {Null, Undefined, Str(<<>>), Str(<<" ">>), Str(<<"a", "/", "a">>), Str(<<"/">>),
     [t |-> "Blob"], [t |-> "Buffer"]}
NoOptions ==
    [filename |-> Undefined, stems |-> Undefined, bitrate |-> Undefined,
     format |-> Undefined]
SeparateOptionSets ==
    {NoOptions,
     [NoOptions EXCEPT !.filename = Str(<<"a", ".", ".", "a">>)],
     [NoOptions EXCEPT !.filename = Str(<<" ">>)],
     [NoOptions EXCEPT !.filename = Str(<<"/", "a", " ">>), !.stems = Str(<<"4", "s", "t", "e", "m", "s">>),
                       !.bitrate = Str(<<" ", "3", "2", "0", "k">>), !.format = Str(<<"m", "p", "3">>)]}

\* inputs of getStemDownloadUrl and downloadStem
JobIds ==
    {Undefined, Str(<<>>), Str(<<" ">>), Str(<<"a">>), Str(<<" ", "a">>), Str(<<"a", "/", "a">>), Str(<<".", ".">>),
     Str(<<"U+D800">>)}
Filenames == {<<>>, <<"a">>, <<"/", "a">>, <<"a", ".", ".", "a">>}

\* JSON bodies the remote may send
SeparateBodyFields ==
    [success |-> Absent, message |-> Absent, status |-> Absent, job_id |-> Absent,
     output_files |-> Absent, stems |-> Absent, processing_time |-> Absent,
     detail |-> Absent]
GoodBody ==
    Obj([SeparateBodyFields EXCEPT
            !.success = Bool(TRUE), !.message = Str(<<"o", "k">>), !.job_id = Str(<<"a">>),
            !.stems = Str(<<"4", "s", "t", "e", "m", "s">>),
            !.output_files = Arr(<<Str(<<"a">>), Str(<<>>), Num(1)>>),
            !.processing_time = Half(12)])
FailureBody ==
    Obj([SeparateBodyFields EXCEPT
            !.success = Bool(FALSE), !.message = Str(<<"t", "i", "m", "e", "o", "u", "t">>),
            !.status = Num(400)])
MalformedBody ==
    Obj([SeparateBodyFields EXCEPT !.success = Bool(TRUE), !.job_id = Str(<<>>)])
DetailBody == Obj([SeparateBodyFields EXCEPT !.detail = Str(<<"a">>)])

Responses ==
    {Response(200, JsonBody(GoodBody)), Response(200, JsonBody(FailureBody)),
     Response(200, JsonBody(MalformedBody)), Response(200, JsonBody(Str(<<"a">>))),
     Response(200, TextBody), Response(200, BrokenBody), Response(204, NoBody),
     Response(500, JsonBody(DetailBody)), Response(500, TextBody),
     Response(404, BrokenBody)}

ConstructClient == Construct(ClientBaseUrls, ClientApiKeys, ClientTimeouts)
CallSeparate == Separate(Files, SeparateOptionSets)
CallGetStemDownloadUrl == GetStemDownloadUrl(JobIds, Filenames)
CallDownloadStem == DownloadStem(JobIds, Filenames)
RemoteAnswersFetch == FetchResponds(Responses)
RemoteAnswersAxios == AxiosSettles(Responses)

Init ==
    /\ env \in Envs
    /\ client = NoClient
    /\ calls = <<IdleCall>>
    /\ fn = "none"
    /\ arg = <<>>
    /\ out = <<>>

Next ==
    \/ ConstructClient
    \/ CallSeparate
    \/ CallGetStemDownloadUrl
    \/ CallDownloadStem
    \/ CheckHealth
    \/ RemoteAnswersFetch
    \/ FetchFails
    \/ TimerFires
    \/ FetchAborted
    \/ MethodResumes
    \/ DeadlinePasses
    \/ JsonSettles
    \/ TextSettles
    \/ ArrayBufferSettles
    \/ RemoteAnswersAxios
    \/ AxiosFails
    \/ AxiosTimesOut
    \/ Settle

Spec == Init /\ [][Next]_vars

----------------------------------------------------------------------------
(* getStemDownloadUrl and downloadStem on every short job id and filename *)

UrlEnvs == {DefaultEnv, [fetch |-> FALSE, formData |-> FALSE, file |-> FALSE]}
UrlClients ==
    {Constructed([baseUrl |-> b, apiKey |-> Undefined, timeout |-> Undefined]) :
        b \in {Undefined, Str(<<"a", "/">>)}}
\* strings holding surrogates: alone, and as a pair
SurrogateStrings ==
    {<<"U+D800">>, <<"U+DC00">>, <<"a", "U+D800">>, <<"U+D800", "U+DC00">>}
AllJobIds ==
    {Undefined, Null} \cup {Str(s) : s \in StringsUpTo(MaxPairLen) \cup SurrogateStrings}
AllFilenames == StringsUpTo(MaxPairLen) \cup SurrogateStrings

GetAnyStemDownloadUrl == GetStemDownloadUrl(AllJobIds, AllFilenames)
DownloadAnyStem == DownloadStem(AllJobIds, AllFilenames)

InitUrl ==
    /\ env \in UrlEnvs
    /\ client \in UrlClients
    /\ calls = <<IdleCall>>
    /\ fn = "none"
    /\ arg = <<>>
    /\ out = <<>>

NextUrl ==
    \/ GetAnyStemDownloadUrl
    \/ DownloadAnyStem

SpecUrl == InitUrl /\ [][NextUrl]_vars

----------------------------------------------------------------------------
(* parseSeparateResponse on the bodies a remote may send *)

BodySuccess == {Absent, Bool(TRUE), Bool(FALSE), Str(<<"t", "r", "u", "e">>)}
BodyMessage == {Absent, Str(<<"b", "a", "d", " ", "a", "u", "d", "i", "o">>), Num(1)}
BodyStatus == {Absent, Num(400), Str(<<"4", "0", "0">>)}
BodyJobId == {Absent, Str(<<>>), Str(<<" ">>), Str(<<"j", "o", "b", "-", "1">>), Str(<<" ", "a">>), Num(1)}
BodyOutputFiles ==
    {Absent, Arr(<<>>), Arr(<<Str(<<"v", "o", "c", "a", "l", "s", ".", "w", "a", "v">>), Str(<<>>), Num(1), Str(<<"a">>)>>),
     Str(<<"a">>), Null}
BodyStems ==
    {Absent, Str(<<"2", "s", "t", "e", "m", "s">>), Str(<<"4", "s", "t", "e", "m", "s">>), Str(<<"5", "s", "t", "e", "m", "s">>), Str(<<"3", "s", "t", "e", "m", "s">>),
     Num(4)}
BodyTime == {Absent, Num(0), Half(12), Num(-1), NaN, Infinity, Str(<<"1">>)}

Bodies ==
    {Null, Undefined, Num(1), Str(<<"a">>), Bool(TRUE), Arr(<<>>)}
    \cup {Obj(f) : f \in [success : BodySuccess, message : BodyMessage,
                          status : BodyStatus, job_id : BodyJobId,
                          output_files : BodyOutputFiles, stems : BodyStems,
                          processing_time : BodyTime]}

ApplyParseSeparateResponse ==
    /\ fn = "none"
    /\ fn' = "parseSeparateResponse"
    /\ out' = <<parseSeparateResponse(arg)>>
    /\ UNCHANGED <<env, client, calls, arg>>

InitParse ==
    /\ env = DefaultEnv
    /\ client = NoClient
    /\ calls = NoCalls
    /\ fn = "none"
    /\ arg \in Bodies
    /\ out = <<>>

NextParse == ApplyParseSeparateResponse

SpecParse == InitParse /\ [][NextParse]_vars

----------------------------------------------------------------------------
(* separate on every body a remote may send, on both transports *)

\* what JSON.parse can produce: no undefined, no NaN
JsonValues ==
    {b \in Bodies : /\ b # Undefined
                    /\ b.t = "object" => b.f.processing_time # NaN}

RemoteResponses ==
    {Response(200, JsonBody(v)) : v \in JsonValues} \cup Responses

\* a sound file as the browser holds it, and as Node holds it
SoundFile == [t |-> "Blob"]
SoundBuffer == [t |-> "Buffer"]
RemoteClient ==
    Constructed([baseUrl |-> Str(<<"a">>), apiKey |-> Str(<<"k">>), timeout |-> Num(5000)])

SeparateSound == Separate({SoundFile, SoundBuffer}, {NoOptions})
RemoteSendsFetch == FetchResponds(RemoteResponses)
RemoteSendsAxios == AxiosSettles(RemoteResponses)

InitSeparate ==
    /\ env \in UrlEnvs
    /\ client = RemoteClient
    /\ calls = <<IdleCall>>
    /\ fn = "none"
    /\ arg = <<>>
    /\ out = <<>>

NextSeparate ==
    \/ SeparateSound
    \/ RemoteSendsFetch
    \/ FetchFails
    \/ TimerFires
    \/ FetchAborted
    \/ MethodResumes
    \/ JsonSettles
    \/ TextSettles
    \/ RemoteSendsAxios
    \/ AxiosFails
    \/ AxiosTimesOut

SpecSeparate == InitSeparate /\ [][NextSeparate]_vars

----------------------------------------------------------------------------
(* throwAxiosError on the failures a request may end with *)

\* the response a failure may carry
MapperResponses ==
    {Undefined, Null}
    \cup {[t |-> "response", status |-> s, data |-> d] :
             s \in {Num(500), Num(404), Undefined},
             d \in {DetailBody, FailureBody, Str(<<"o", "o", "p", "s">>), Null, Undefined, Arr(<<>>),
                    Obj([SeparateBodyFields EXCEPT !.detail = Null])}}
\* its message
MapperMessages ==
    {Undefined, Text(<<"t", "i", "m", "e", "o", "u", "t", " ", "o", "f", " ", "5", "0", "0", "0", "m", "s", " ", "e", "x", "c", "e", "e", "d", "e", "d">>), Text(<<"N", "e", "t", "w", "o", "r", "k", " ", "E", "r", "r", "o", "r">>),
     Text(<<"T", "i", "m", "e", "o", "u", "t">>), Text(<<"a", " ", "t", "i", "m", "e", "o", "u">>), Text(<<>>)}
\* what axios, or the parser inside the try block, may throw
MapperErrors ==
    {AxiosError(msg, r) : msg \in MapperMessages, r \in MapperResponses}
    \cup {StemSeparatorError(Text(<<"t", "i", "m", "e", "o", "u", "t">>), ErrorCode.API_ERROR, Num(400), Undefined),
          StemSeparatorError(Lit("API response missing valid job_id"),
                             ErrorCode.INVALID_RESPONSE, Undefined, Undefined)}
\* the messages the three methods pass
MapperTexts ==
    {[onTimeout |-> Tpl("Request timed out after ${this.timeout}ms", <<Num(5000)>>),
      onNetwork |-> Lit("Request failed")],
     [onTimeout |-> Tpl("Download timed out after ${this.timeout}ms", <<Num(5000)>>),
      onNetwork |-> Lit("Download failed")],
     [onTimeout |-> Lit("Health check failed"),
      onNetwork |-> Lit("Health check failed")]}

ApplyThrowAxiosError ==
    /\ fn = "none"
    /\ fn' = "throwAxiosError"
    /\ out' = <<Throw(throwAxiosError(arg.err, arg.messages))>>
    /\ UNCHANGED <<env, client, calls, arg>>

InitMapper ==
    /\ env = [fetch |-> FALSE, formData |-> FALSE, file |-> FALSE]
    /\ client = NoClient
    /\ calls = NoCalls
    /\ fn = "none"
    /\ arg \in [err : MapperErrors, messages : MapperTexts]
    /\ out = <<>>

NextMapper == ApplyThrowAxiosError

SpecMapper == InitMapper /\ [][NextMapper]_vars

----------------------------------------------------------------------------
(* buildSeparateQueryString on the options a caller may pass *)

StemsOptions ==
    {Undefined, Null, Str(<<>>), Str(<<"2", "s", "t", "e", "m", "s">>), Str(<<"4", "s", "t", "e", "m", "s">>), Str(<<"5", "s", "t", "e", "m", "s">>),
     Str(<<"3", "s", "t", "e", "m", "s">>), Str(<<" ", "2", "s", "t", "e", "m", "s">>)}
FormatOptions ==
    {Undefined, Str(<<>>), Str(<<"w", "a", "v">>), Str(<<"m", "p", "3">>), Str(<<"f", "l", "a", "c">>), Str(<<"m", "4", "a">>),
     Str(<<"a", "a", "c">>), Str(<<"o", "g", "g">>), Str(<<"m", "p", "4">>), Str(<<"w", "a", "v", " ">>)}
BitrateOptions ==
    {Undefined, Null, Str(<<"3", "2", "0", "k">>)} \cup {Str(s) : s \in StringsUpTo(MaxPairLen)}

ApplyBuildSeparateQueryString ==
    /\ fn = "none"
    /\ fn' = "buildSeparateQueryString"
    /\ out' = <<Return(buildSeparateQueryString(arg))>>
    /\ UNCHANGED <<env, client, calls, arg>>

InitQuery ==
    /\ env = DefaultEnv
    /\ client = NoClient
    /\ calls = NoCalls
    /\ fn = "none"
    /\ arg \in [filename : {Undefined}, stems : StemsOptions,
                bitrate : BitrateOptions, format : FormatOptions]
    /\ out = <<>>

NextQuery == ApplyBuildSeparateQueryString

SpecQuery == InitQuery /\ [][NextQuery]_vars

----------------------------------------------------------------------------
(* Two calls in flight on one client *)

ConcurrentResponses ==
    {Response(200, JsonBody(GoodBody)), Response(200, JsonBody(FailureBody)),
     Response(500, TextBody)}

SeparateConcurrently == Separate({SoundFile, SoundBuffer}, {NoOptions})
DownloadConcurrently == DownloadStem({Str(<<"a">>)}, {<<"a">>})
FetchAnswersOne == FetchResponds(ConcurrentResponses)
AxiosAnswersOne == AxiosSettles(ConcurrentResponses)

InitConcurrent ==
    /\ env \in UrlEnvs
    /\ client = RemoteClient
    /\ calls = <<IdleCall, IdleCall>>
    /\ fn = "none"
    /\ arg = <<>>
    /\ out = <<>>

NextConcurrent ==
    \/ SeparateConcurrently
    \/ DownloadConcurrently
    \/ CheckHealth
    \/ FetchAnswersOne
    \/ FetchFails
    \/ TimerFires
    \/ FetchAborted
    \/ MethodResumes
    \/ JsonSettles
    \/ TextSettles
    \/ ArrayBufferSettles
    \/ AxiosAnswersOne
    \/ AxiosFails
    \/ AxiosTimesOut
    \/ Settle

SpecConcurrent == InitConcurrent /\ [][NextConcurrent]_vars

----------------------------------------------------------------------------
(* Direct application of the module-level functions *)

\* normalizeBaseUrl(arg), then normalizeBaseUrl of what that returned
ApplyNormalizeBaseUrl ==
    /\ fn \in {"none", "normalizeBaseUrl"}
    /\ Len(out) < 2
    /\ out # <<>> => out[Len(out)].ok
    /\ fn' = "normalizeBaseUrl"
    /\ out' = Append(out, normalizeBaseUrl(IF out = <<>> THEN arg
                                            ELSE out[Len(out)].value))
    /\ UNCHANGED <<env, client, calls, arg>>

ApplySanitizeFilename ==
    /\ fn = "none"
    /\ fn' = "sanitizeFilename"
    /\ out' = <<sanitizeFilename(arg)>>
    /\ UNCHANGED <<env, client, calls, arg>>

ApplyAssertValidJobId ==
    /\ fn = "none"
    /\ fn' = "assertValidJobId"
    /\ out' = <<assertValidJobId(Str(arg))>>
    /\ UNCHANGED <<env, client, calls, arg>>

InitStrings ==
    /\ env = DefaultEnv
    /\ client = NoClient
    /\ calls = NoCalls
    /\ fn = "none"
    /\ arg \in StringsUpTo(MaxLen)
    /\ out = <<>>

NextStrings ==
    \/ ApplyNormalizeBaseUrl
    \/ ApplySanitizeFilename
    \/ ApplyAssertValidJobId

SpecStrings == InitStrings /\ [][NextStrings]_vars

----------------------------------------------------------------------------
(* Claims about the validators and the constructor *)

\* the text after the last '/' or '\' of s
TextAfterLastSeparator(s) ==
    LET seps == {i \in 1..Len(s) : s[i] \in Separators}
    IN  IF seps = {} THEN s
        ELSE SubSeq(s, (CHOOSE i \in seps : \A j \in seps : i >= j) + 1, Len(s))

ThrewCode(r, code) ==
    ~r.ok /\ IsStemSeparatorError(r.error) /\ r.error.code = code

\* C3: sanitizeFilename fails with INVALID_ARGUMENT for every filename that
\* contains '..' and for every filename whose basename is empty, and a value it
\* returns is never empty and never contains '/', '\' or '..'. (That the value
\* is the untrimmed text after the last separator is not stated here: the
\* function trims its result.)
C3_SanitizedIsBasename ==
    fn = "sanitizeFilename" =>
        LET r == out[1]
        IN  /\ Includes(arg, <<".", ".">>) => ThrewCode(r, ErrorCode.INVALID_ARGUMENT)
            /\ TextAfterLastSeparator(arg) = <<>> =>
                   ThrewCode(r, ErrorCode.INVALID_ARGUMENT)
            /\ r.ok => /\ r.value # <<>>
                       /\ ~Includes(r.value, <<"/">>)
                       /\ ~Includes(r.value, <<"\\">>)
                       /\ ~Includes(r.value, <<".", ".">>)

\* C6: normalizeBaseUrl is idempotent: applied to a value it returned, it
\* succeeds and returns that value again.
C6_NormalizeIdempotent ==
    (fn = "normalizeBaseUrl" /\ Len(out) = 2) =>
        /\ out[2].ok
        /\ out[2].value = out[1].value

\* C7: a constructed client's baseUrl is non-empty and does not end with '/';
\* an empty or white-space baseUrl option makes construction fail with
\* INVALID_ARGUMENT; with no baseUrl option the stored value is DEFAULT_BASE_URL.
C7_BaseUrlStored ==
    client.state # "none" =>
        LET o == client.options.baseUrl
        IN  /\ client.state = "constructed" =>
                   /\ client.baseUrl # <<>>
                   /\ client.baseUrl[Len(client.baseUrl)] # "/"
            /\ (o.t = "string" /\ Trim(o.s) = <<>>) =>
                   /\ client.state = "failed"
                   /\ client.error.name = "StemSeparatorError"
                   /\ client.error.code = ErrorCode.INVALID_ARGUMENT
            /\ (o = Undefined /\ client.state = "constructed") =>
                   client.baseUrl = DEFAULT_BASE_URL

\* C8: construction fails with INVALID_ARGUMENT for every timeout option that
\* is given and is not a number >= 1; with no timeout option the timeout is
\* 300000; every constructed client holds a positive integer timeout.
C8_TimeoutStored ==
    client.state # "none" =>
        LET o == client.options.timeout
        IN  /\ (~IsNullish(o) /\ ~(TypeOf(o) = "number" /\ NumGeq(o, 1))) =>
                   /\ client.state = "failed"
                   /\ client.error.name = "StemSeparatorError"
                   /\ client.error.code = ErrorCode.INVALID_ARGUMENT
            /\ (o = Undefined /\ client.state = "constructed") =>
                   client.timeout = Num(300000)
            /\ client.state = "constructed" =>
                   /\ client.timeout.t = "number"
                   /\ client.timeout.k = "int"
                   /\ client.timeout.n >= 1

ThrewInvalidArgument(call) ==
    /\ call.pc = "done"
    /\ ThrewCode(call.result, ErrorCode.INVALID_ARGUMENT)

\* C1: a call of separate, getStemDownloadUrl or downloadStem that fails with
\* INVALID_ARGUMENT has issued no outbound request at any point.
C1_ValidationBeforeIO ==
    \A c \in DOMAIN calls :
        (/\ calls[c].op \in {"separate", "getStemDownloadUrl", "downloadStem"}
         /\ ThrewInvalidArgument(calls[c]))
        => calls[c].requests = <<>>

\* a separate call with a sound file and a filename option containing '..' has
\* failed with INVALID_ARGUMENT
C1_Witness ==
    \E c \in DOMAIN calls :
        /\ calls[c].op = "separate"
        /\ ThrewInvalidArgument(calls[c])
        /\ calls[c].args[1] = Str(<<"a", "/", "a">>)
        /\ calls[c].args[2].filename = Str(<<"a", ".", ".", "a">>)

\* empty, white space only, or containing '..', '/' or '\'
BadJobId(s) ==
    \/ \A i \in 1..Len(s) : s[i] \in WhiteSpace
    \/ \E i \in 1..Len(s) : s[i] \in {"/", "\\"}
    \/ \E i \in 1..(Len(s) - 1) : s[i] = "." /\ s[i + 1] = "."

\* C2: for every job id that is empty, white space only or contains '..', '/'
\* or '\', getStemDownloadUrl and downloadStem fail with INVALID_ARGUMENT: no
\* URL is returned and no request is made.
C2_BadJobIdRejected ==
    \A c \in DOMAIN calls :
        (/\ calls[c].op \in {"getStemDownloadUrl", "downloadStem"}
         /\ calls[c].args[1].t = "string"
         /\ BadJobId(calls[c].args[1].s))
        => /\ ThrewInvalidArgument(calls[c])
           /\ calls[c].requests = <<>>

\* downloadStem was called with a job id holding a backslash, and failed
C2_Witness ==
    \E c \in DOMAIN calls :
        /\ calls[c].op = "downloadStem"
        /\ calls[c].args[1] = Str(<<"a", "\\">>)
        /\ ThrewInvalidArgument(calls[c])

\* C4: every failure that reaches the caller of the constructor or of a method
\* is a StemSeparatorError with one of the five codes; no raw error escapes.
C4_OnlyClientErrors ==
    /\ client.state = "failed" =>
           /\ IsStemSeparatorError(client.error)
           /\ client.error.code \in ErrorCodes
    /\ \A c \in DOMAIN calls :
           (calls[c].pc = "done" /\ ~calls[c].result.ok) =>
               /\ IsStemSeparatorError(calls[c].result.error)
               /\ calls[c].result.error.code \in ErrorCodes

\* C5: a separate or downloadStem call that outlives the client's timeout is
\* aborted and fails with TIMEOUT; it neither succeeds nor fails otherwise.
C5_LateCallsTimeOut ==
    \A c \in DOMAIN calls :
        (/\ calls[c].pc = "done"
         /\ calls[c].op \in {"separate", "downloadStem"}
         /\ calls[c].late)
        => /\ calls[c].aborted
           /\ ThrewCode(calls[c].result, ErrorCode.TIMEOUT)

\* C9: for every job id and filename the validators accept, getStemDownloadUrl
\* makes no request and returns exactly baseUrl + '/api/v1/separate/' + the
\* percent-encoded job id + '/download/' + the percent-encoded sanitized
\* filename.
C9_DownloadUrl ==
    \A c \in DOMAIN calls :
        (/\ calls[c].pc = "done"
         /\ calls[c].op = "getStemDownloadUrl"
         /\ assertValidJobId(calls[c].args[1]).ok
         /\ sanitizeFilename(calls[c].args[2]).ok)
        => /\ calls[c].requests = <<>>
           /\ calls[c].result.ok
           /\ calls[c].result.value =
                  client.baseUrl \o <<"/", "a", "p", "i", "/", "v", "1", "/", "s", "e", "p", "a", "r", "a", "t", "e", "/">>
                  \o PercentEncode(calls[c].args[1].s) \o <<"/", "d", "o", "w", "n", "l", "o", "a", "d", "/">>
                  \o PercentEncode(sanitizeFilename(calls[c].args[2]).value)

\* the outcome the claimed order of checks gives for a body
FirstFailingCheck(body) ==
    IF body.t # "object" /\ body.t # "array"
    THEN [code |-> "INVALID_RESPONSE"]
    ELSE IF Get(body, "success") = Bool(FALSE)
    THEN [code |-> "API_ERROR",
          message |-> IF Get(body, "message").t = "string"
                      THEN Text(Get(body, "message").s)
                      ELSE Lit("Separation failed"),
          status |-> IF Get(body, "status").t = "number" THEN Get(body, "status")
                     ELSE Undefined]
    ELSE IF Get(body, "success") # Bool(TRUE)
    THEN [code |-> "INVALID_RESPONSE"]
    ELSE IF \/ Get(body, "job_id").t # "string"
            \/ \A i \in 1..Len(Get(body, "job_id").s) :
                   Get(body, "job_id").s[i] \in WhiteSpace
    THEN [code |-> "INVALID_RESPONSE"]
    ELSE IF Get(body, "output_files").t # "array"
    THEN [code |-> "INVALID_RESPONSE"]
    ELSE [code |-> "none"]

\* C10: parseSeparateResponse applies its checks in a fixed order and the
\* first failing check decides: non-object -> INVALID_RESPONSE; success false
\* -> API_ERROR with the body's message (or the default) and numeric status,
\* whatever job_id and output_files are; success not true -> INVALID_RESPONSE;
\* job_id missing, non-string or blank -> INVALID_RESPONSE; output_files not
\* an array -> INVALID_RESPONSE; otherwise the parse succeeds.
C10_FirstFailingCheckDecides ==
    fn = "parseSeparateResponse" =>
        LET want == FirstFailingCheck(arg)
            got == out[1]
        IN  IF want.code = "none" THEN got.ok
            ELSE /\ ThrewCode(got, want.code)
                 /\ want.code = "API_ERROR" =>
                        /\ got.error.message = want.message
                        /\ got.error.status = want.status
                 /\ want.code = "INVALID_RESPONSE" => got.error.status = Undefined

\* an explicit failure without job_id and output_files was parsed into API_ERROR
\* with the body's message and status
C10_Witness ==
    /\ fn = "parseSeparateResponse"
    /\ Get(arg, "success") = Bool(FALSE)
    /\ Get(arg, "job_id") = Undefined
    /\ Get(arg, "output_files") = Undefined
    /\ ThrewCode(out[1], ErrorCode.API_ERROR)
    /\ out[1].error.message = Text(<<"b", "a", "d", " ", "a", "u", "d", "i", "o">>)
    /\ out[1].error.status = Num(400)


----------------------------------------------------------------------------
(* Claims about the parsed result and the results of the methods *)

\* the entries of items that are strings of one character or more, in order
RECURSIVE NonEmptyStrings(_)
NonEmptyStrings(items) ==
    IF items = <<>> THEN <<>>
    ELSE LET h == Head(items)
         IN  (IF h.t = "string" /\ h.s # <<>> THEN <<h>> ELSE <<>>)
             \o NonEmptyStrings(Tail(items))

\* C11: for every body that passes the parser's checks the result carries
\* job_id unchanged, every valid field unchanged (a string message, stems among
\* the three recognized values, processing_time >= 0, the entries of
\* output_files in their order) and the defaults otherwise: message '', stems
\* '2stems', processing_time 0, and output_files without exactly its
\* non-string and empty entries.
C11_ParsedFields ==
    (fn = "parseSeparateResponse" /\ out[1].ok) =>
        LET r == out[1].value
            message == Get(arg, "message")
            stems == Get(arg, "stems")
            time == Get(arg, "processing_time")
        IN  /\ DOMAIN r = {"success", "message", "job_id", "stems",
                           "output_files", "processing_time"}
            /\ r.success = Bool(TRUE)
            /\ r.job_id = Get(arg, "job_id")
            /\ r.message = (IF message.t = "string" THEN message ELSE Str(<<>>))
            /\ r.stems = (IF stems \in {Str(<<"2", "s", "t", "e", "m", "s">>), Str(<<"4", "s", "t", "e", "m", "s">>), Str(<<"5", "s", "t", "e", "m", "s">>)}
                          THEN stems ELSE Str(<<"2", "s", "t", "e", "m", "s">>))
            /\ r.processing_time =
                   (IF /\ time.t = "number"
                       /\ \/ time.k \in {"int", "half"} /\ time.n >= 0
                          \/ time.k = "Infinity"
                    THEN time ELSE Num(0))
            /\ r.output_files = Arr(NonEmptyStrings(Get(arg, "output_files").items))

\* a body with an ill-typed message, an unrecognized stems value, a negative
\* processing_time and a mixed output_files array was parsed into the defaults
\* and the two non-empty filenames, in their order
C11_Witness ==
    /\ fn = "parseSeparateResponse"
    /\ Get(arg, "message") = Num(1)
    /\ Get(arg, "stems") = Str(<<"3", "s", "t", "e", "m", "s">>)
    /\ Get(arg, "processing_time") = Num(-1)
    /\ Get(arg, "job_id") = Str(<<" ", "a">>)
    /\ out[1].ok
    /\ Len(Get(arg, "output_files").items) = 4
    /\ out[1].value.job_id = Str(<<" ", "a">>)
    /\ out[1].value.message = Str(<<>>)
    /\ out[1].value.stems = Str(<<"2", "s", "t", "e", "m", "s">>)
    /\ out[1].value.processing_time = Num(0)
    /\ out[1].value.output_files = Arr(<<Str(<<"v", "o", "c", "a", "l", "s", ".", "w", "a", "v">>), Str(<<"a">>)>>)


\* C12: every value separate returns has success true, a non-empty string
\* job_id, stems among the three recognized values, only non-empty strings in
\* output_files and processing_time >= 0, whatever the remote sent.
C12_ReturnedResultValid ==
    \A c \in DOMAIN calls :
        (calls[c].op = "separate" /\ calls[c].pc = "done" /\ calls[c].result.ok)
        => LET v == calls[c].result.value
           IN  /\ v.success = Bool(TRUE)
               /\ v.job_id.t = "string"
               /\ Len(v.job_id.s) > 0
               /\ v.stems \in {Str(<<"2", "s", "t", "e", "m", "s">>), Str(<<"4", "s", "t", "e", "m", "s">>), Str(<<"5", "s", "t", "e", "m", "s">>)}
               /\ v.output_files.t = "array"
               /\ \A i \in 1..Len(v.output_files.items) :
                      /\ v.output_files.items[i].t = "string"
                      /\ Len(v.output_files.items[i].s) > 0
               /\ v.processing_time.t = "number"
               /\ \/ v.processing_time.k \in {"int", "half"} /\ v.processing_time.n >= 0
                  \/ v.processing_time.k = "Infinity"

\* separate returned a result on the axios path for a body with an unrecognized
\* stems value, a negative processing_time and empty and non-string entries in
\* output_files
C12_Witness ==
    \E c \in DOMAIN calls :
        /\ calls[c].op = "separate"
        /\ calls[c].pc = "done"
        /\ calls[c].result.ok
        /\ ~env.fetch
        /\ Get(calls[c].res.body.value, "stems") = Str(<<"3", "s", "t", "e", "m", "s">>)
        /\ Get(calls[c].res.body.value, "processing_time") = Num(-1)
        /\ Len(Get(calls[c].res.body.value, "output_files").items) = 4
        /\ Len(calls[c].result.value.output_files.items) = 2


\* C13: a separate call the remote answered with a body that is not JSON
\* fails with INVALID_RESPONSE.
C13_NonJsonIsInvalidResponse ==
    \A c \in DOMAIN calls :
        (/\ calls[c].op = "separate"
         /\ calls[c].pc = "done"
         /\ calls[c].res # Undefined
         /\ calls[c].res.body.kind = "text")
        => ThrewCode(calls[c].result, ErrorCode.INVALID_RESPONSE)


\* a StemSeparatorError whose code is not API_ERROR carries no status
StatusOnlyForApiError(e) ==
    (IsStemSeparatorError(e) /\ e.code # ErrorCode.API_ERROR) => e.status = Undefined

\* C14: for every error the constructor or a method raises, status is set only
\* if the code is API_ERROR: an error with code INVALID_ARGUMENT,
\* NETWORK_ERROR, TIMEOUT or INVALID_RESPONSE carries no status.
C14_StatusOnlyForApiError ==
    /\ client.state = "failed" => StatusOnlyForApiError(client.error)
    /\ \A c \in DOMAIN calls :
           (calls[c].pc = "done" /\ ~calls[c].result.ok)
           => StatusOnlyForApiError(calls[c].result.error)

\* on the axios path the remote answered separate 200 with an explicit failure
\* carrying status 400, and the call failed with TIMEOUT and no status
C14_Witness ==
    \E c \in DOMAIN calls :
        /\ calls[c].op = "separate"
        /\ calls[c].pc = "done"
        /\ ~env.fetch
        /\ calls[c].res = Response(200, JsonBody(FailureBody))
        /\ ThrewCode(calls[c].result, ErrorCode.TIMEOUT)
        /\ calls[c].result.error.status = Undefined
        /\ calls[c].result.error.cause.status = Num(400)


\* C15: checkHealth issues its GET to baseUrl + '/health' with a timeout of
\* 10000 ms whatever timeout the client was configured with, and attaches no
\* Authorization header even when the client has a non-empty apiKey.
C15_HealthRequest ==
    \A c \in DOMAIN calls :
        (calls[c].op = "checkHealth" /\ calls[c].pc # "idle")
        => /\ Len(calls[c].requests) = 1
           /\ calls[c].requests[1].method = "GET"
           /\ calls[c].requests[1].url = client.baseUrl \o <<"/", "h", "e", "a", "l", "t", "h">>
           /\ calls[c].requests[1].timeout = Num(10000)
           /\ calls[c].requests[1].headers.Authorization = Absent

\* a client configured with timeout 5000 and an apiKey has sent the health
\* request through axios
C15_Witness ==
    \E c \in DOMAIN calls :
        /\ calls[c].op = "checkHealth"
        /\ Len(calls[c].requests) = 1
        /\ calls[c].requests[1].transport = "axios"
        /\ client.timeout = Num(5000)
        /\ client.apiKey # <<>>
        /\ getAuthHeaders(client.apiKey).Authorization # Absent


\* C16: a finished checkHealth call has returned the payload parsed from the
\* response's JSON unchanged, or has failed with API_ERROR or NETWORK_ERROR; it
\* has failed with no other code.
C16_HealthOutcomes ==
    \A c \in DOMAIN calls :
        (calls[c].op = "checkHealth" /\ calls[c].pc = "done")
        => IF calls[c].result.ok
           THEN calls[c].res.body.kind = "json"
                => calls[c].result.value = calls[c].res.body.value
           ELSE \/ ThrewCode(calls[c].result, ErrorCode.API_ERROR)
                \/ ThrewCode(calls[c].result, ErrorCode.NETWORK_ERROR)


\* C17: for a job id and a filename the validators accept, downloadStem issues
\* one GET to the URL getStemDownloadUrl returns for them; once the remote has
\* answered, the call has returned the response's bytes if the status is 2xx
\* and has failed with API_ERROR carrying the HTTP status otherwise, on either
\* transport.
C17_DownloadOutcomes ==
    \A c \in DOMAIN calls :
        (/\ calls[c].op = "downloadStem"
         /\ assertValidJobId(calls[c].args[1]).ok
         /\ sanitizeFilename(calls[c].args[2]).ok)
        => /\ Len(calls[c].requests) = 1
           /\ calls[c].requests[1].method = "GET"
           /\ getStemDownloadUrl(client, calls[c].args[1], calls[c].args[2]).ok
           /\ calls[c].requests[1].url =
                  getStemDownloadUrl(client, calls[c].args[1], calls[c].args[2]).value
           /\ (calls[c].pc = "done" /\ calls[c].res # Undefined)
              => IF calls[c].res.status.n \in 200..299
                 THEN /\ calls[c].result.ok
                      /\ calls[c].result.value = ArrayBuffer(calls[c].res.body)
                 ELSE /\ ThrewCode(calls[c].result, ErrorCode.API_ERROR)
                      /\ calls[c].result.error.status = calls[c].res.status


\* C18: no operation retries: a call of separate, downloadStem or checkHealth
\* has issued at most one outbound request at any point, and a call that has
\* failed after its request has issued exactly that one.
C18_NoRetry ==
    \A c \in DOMAIN calls :
        /\ Len(calls[c].requests) <= 1
        /\ (calls[c].pc = "done" /\ ~calls[c].result.ok /\ calls[c].requests # <<>>)
           => Len(calls[c].requests) = 1

\* a separate call whose request was refused has failed with NETWORK_ERROR
\* after its one request
C18_Witness ==
    \E c \in DOMAIN calls :
        /\ calls[c].op = "separate"
        /\ calls[c].pc = "done"
        /\ ThrewCode(calls[c].result, ErrorCode.NETWORK_ERROR)
        /\ calls[c].res = Undefined
        /\ Len(calls[c].requests) = 1


\* C19: on every exit path of a timed request (response received, transport
\* error, timeout abort) the call's timer is cleared: a call that has left
\* fetchWithTimeout, and so every call that has returned or thrown, has no
\* pending timer; and a call that fails with TIMEOUT after its deadline passed
\* was aborted before the error reached the caller.
C19_TimerReleased ==
    \A c \in DOMAIN calls :
        /\ calls[c].pc = "done" => calls[c].timer \in {"none", "cleared"}
        /\ (/\ calls[c].requests # <<>>
            /\ calls[c].requests[1].transport = "fetch"
            /\ calls[c].pc # "fetch")
           => calls[c].timer = "cleared"
        /\ (/\ calls[c].pc = "done"
            /\ calls[c].late
            /\ ThrewCode(calls[c].result, ErrorCode.TIMEOUT))
           => calls[c].aborted

\* a downloadStem call on the fetch path was aborted by its timer and has
\* failed with TIMEOUT, the timer cleared
C19_Witness ==
    \E c \in DOMAIN calls :
        /\ calls[c].op = "downloadStem"
        /\ calls[c].pc = "done"
        /\ Len(calls[c].requests) = 1
        /\ calls[c].requests[1].transport = "fetch"
        /\ calls[c].aborted
        /\ calls[c].timer = "cleared"
        /\ ThrewCode(calls[c].result, ErrorCode.TIMEOUT)


\* what the caller of a method on the fetch path receives once the remote has
\* answered r: fetchWithTimeout resolves and the body is read to the end
SettledOnFetch(call, r) ==
    LET c1 == afterFetch(call, r)
        c2 == CASE c1.pc = "json" -> afterJson(c1)
                [] c1.pc = "text" -> afterText(c1)
                [] c1.pc = "arrayBuffer" -> afterArrayBuffer(c1)
                [] OTHER -> c1
        c3 == IF c2.pc = "text" THEN afterText(c2) ELSE c2
    IN  c3.result

\* the same on the axios path
SettledOnAxios(call, r) == afterAxios(call, r).result

CodeOf(e) == IF IsStemSeparatorError(e) THEN e.code ELSE "none"
StatusOf(e) == IF IsStemSeparatorError(e) THEN e.status ELSE Undefined

\* the same result, or errors with the same code and status
SameOutcome(a, b) ==
    /\ a.ok = b.ok
    /\ a.ok => a.value = b.value
    /\ ~a.ok => /\ CodeOf(a.error) = CodeOf(b.error)
                /\ StatusOf(a.error) = StatusOf(b.error)

\* C20: the fetch path and the axios path are equivalent: for the request of a
\* finished call of separate, downloadStem or checkHealth and the answer the
\* remote gave it (2xx with a valid, explicit-failure, malformed or non-JSON
\* body, or non-2xx), both paths produce the same result or an error with the
\* same code and status; a call that got no answer fails with TIMEOUT when its
\* request was aborted at the deadline and with NETWORK_ERROR otherwise, on
\* both paths.
C20_TransportsEquivalent ==
    \A c \in DOMAIN calls :
        (calls[c].pc = "done" /\ calls[c].requests # <<>>)
        => IF calls[c].res = Undefined
           THEN ThrewCode(calls[c].result,
                          IF calls[c].aborted THEN ErrorCode.TIMEOUT
                          ELSE ErrorCode.NETWORK_ERROR)
           ELSE calls[c].res.body.kind # "broken"
                => SameOutcome(SettledOnFetch(calls[c], calls[c].res),
                               SettledOnAxios(calls[c], calls[c].res))


----------------------------------------------------------------------------
(* Claims about the error mapping, the request and concurrent calls *)

\* C21: when the transport delivered a 2xx response to separate and
\* parseSeparateResponse rejects its body, the caller receives the error the
\* parser raised, with its code, message and status (API_ERROR for an explicit
\* failure, INVALID_RESPONSE for a malformed body), on either transport.
C21_ParserErrorReachesCaller ==
    \A c \in DOMAIN calls :
        (/\ calls[c].op = "separate"
         /\ calls[c].pc = "done"
         /\ calls[c].res # Undefined
         /\ Ok(calls[c].res)
         /\ calls[c].res.body.kind = "json"
         /\ ~parseSeparateResponse(calls[c].res.body.value).ok)
        => LET raised == parseSeparateResponse(calls[c].res.body.value).error
           IN  /\ ~calls[c].result.ok
               /\ IsStemSeparatorError(calls[c].result.error)
               /\ calls[c].result.error.code = raised.code
               /\ calls[c].result.error.message = raised.message
               /\ calls[c].result.error.status = raised.status


\* the failure carries a response / its message contains 'timeout'
CarriesResponse(err) ==
    "response" \in DOMAIN err /\ err.response \notin {Undefined, Null}
SaysTimeout(err) ==
    /\ "chars" \in DOMAIN err.message
    /\ \E i \in 1..(Len(err.message.chars) - 6) :
           SubSeq(err.message.chars, i, i + 6) = <<"t", "i", "m", "e", "o", "u", "t">>

\* C22: throwAxiosError classifies by fixed priority: a failure that carries a
\* response gives API_ERROR with the response's status and the body's detail
\* field as message if present, else 'API error: <status>', even when its
\* message contains 'timeout'; otherwise a message containing 'timeout' gives
\* TIMEOUT; otherwise NETWORK_ERROR; the failure is kept as cause in all cases.
C22_MapperPriority ==
    fn = "throwAxiosError" =>
        LET err == arg.err
            e == out[1].error
        IN  /\ ~out[1].ok
            /\ IsStemSeparatorError(e)
            /\ e.cause = err
            /\ IF CarriesResponse(err)
               THEN /\ e.code = "API_ERROR"
                    /\ e.status = err.response.status
                    /\ e.message =
                           (IF /\ err.response.data.t = "object"
                               /\ err.response.data.f.detail # Absent
                            THEN Tpl("String(detail)", <<err.response.data.f.detail>>)
                            ELSE Tpl("API error: ${status}", <<err.response.status>>))
               ELSE IF SaysTimeout(err)
               THEN /\ e.code = "TIMEOUT"
                    /\ e.status = Undefined
                    /\ e.message = arg.messages.onTimeout
               ELSE /\ e.code = "NETWORK_ERROR"
                    /\ e.status = Undefined
                    /\ e.message = (IF err.message = Undefined
                                    THEN arg.messages.onNetwork ELSE err.message)

\* a failure with a 500 response and a message containing 'timeout' was mapped
\* to API_ERROR with status 500 and the body's detail as message
C22_Witness ==
    /\ fn = "throwAxiosError"
    /\ arg.err.message = Text(<<"t", "i", "m", "e", "o", "u", "t", " ", "o", "f", " ", "5", "0", "0", "0", "m", "s", " ", "e", "x", "c", "e", "e", "d", "e", "d">>)
    /\ CarriesResponse(arg.err)
    /\ arg.err.response.status = Num(500)
    /\ arg.err.response.data = DetailBody
    /\ out[1].error.code = "API_ERROR"
    /\ out[1].error.status = Num(500)
    /\ out[1].error.message = Tpl("String(detail)", <<Str(<<"a">>)>>)
    /\ out[1].error.cause = arg.err


\* the bitrate without its leading and trailing white space
TrimmedBitrate(v) ==
    LET kept == {i \in 1..Len(v.s) : v.s[i] \notin WhiteSpace}
    IN  IF kept = {} THEN <<>>
        ELSE SubSeq(v.s, CHOOSE i \in kept : \A j \in kept : i <= j,
                         CHOOSE i \in kept : \A j \in kept : i >= j)

\* C23: buildSeparateQueryString never fails; it emits 'stems' only when the
\* option is one of 2stems, 4stems, 5stems, 'format' only when it is one of
\* wav, mp3, flac, m4a, aac, ogg, and 'bitrate', trimmed, only when it is
\* non-empty after trimming; every other value is omitted, and when nothing is
\* emitted the result is the empty string, without '?'.
C23_QueryString ==
    fn = "buildSeparateQueryString" =>
        LET qs == out[1].value
            stems == arg.stems \in {Str(<<"2", "s", "t", "e", "m", "s">>), Str(<<"4", "s", "t", "e", "m", "s">>), Str(<<"5", "s", "t", "e", "m", "s">>)}
            format == arg.format \in {Str(<<"w", "a", "v">>), Str(<<"m", "p", "3">>), Str(<<"f", "l", "a", "c">>),
                                      Str(<<"m", "4", "a">>), Str(<<"a", "a", "c">>), Str(<<"o", "g", "g">>)}
            bitrate == arg.bitrate.t = "string" /\ TrimmedBitrate(arg.bitrate) # <<>>
            stemsPart == IF stems THEN <<"s", "t", "e", "m", "s", "=">> \o arg.stems.s ELSE <<>>
            formatPart == IF format THEN <<"f", "o", "r", "m", "a", "t", "=">> \o arg.format.s ELSE <<>>
            bitratePart == IF bitrate
                           THEN <<"b", "i", "t", "r", "a", "t", "e", "=">> \o FormUrlEncode(TrimmedBitrate(arg.bitrate))
                           ELSE <<>>
            count == (IF stems THEN 1 ELSE 0) + (IF format THEN 1 ELSE 0)
                     + (IF bitrate THEN 1 ELSE 0)
        IN  /\ out[1].ok
            /\ Includes(qs, <<"s", "t", "e", "m", "s", "=">>) <=> stems
            /\ Includes(qs, <<"f", "o", "r", "m", "a", "t", "=">>) <=> format
            /\ Includes(qs, <<"b", "i", "t", "r", "a", "t", "e", "=">>) <=> bitrate
            /\ Includes(qs, stemsPart)
            /\ Includes(qs, formatPart)
            /\ Includes(qs, bitratePart)
            /\ count = 0 <=> qs = <<>>
            /\ count > 0 =>
                   /\ Head(qs) = "?"
                   /\ Len(qs) = Len(stemsPart) + Len(formatPart) + Len(bitratePart)
                                + count

\* an unrecognized stems value was omitted and a bitrate with surrounding
\* white space emitted trimmed, next to a recognized format
C23_Witness ==
    /\ fn = "buildSeparateQueryString"
    /\ arg.stems = Str(<<"3", "s", "t", "e", "m", "s">>)
    /\ arg.bitrate = Str(<<" ", "a">>)
    /\ arg.format = Str(<<"m", "p", "3">>)
    /\ out[1].value = <<"?", "b", "i", "t", "r", "a", "t", "e", "=", "a", "&", "f", "o", "r", "m", "a", "t", "=", "m", "p", "3">>


\* the filename separate hands to createForm
GivenFilename(options) ==
    IF IsNullish(options.filename) \/ Trim(options.filename.s) = <<>>
    THEN DEFAULT_FILENAME
    ELSE sanitizeFilename(Trim(options.filename.s)).value

\* C24: for an accepted file and filename option, separate's request carries a
\* form built by the strategy for (native FormData available, input shape) with
\* one part named 'file': for a textual path its filename is the path's
\* basename when non-empty, else the given filename; for every other input it
\* is the given filename; the form's headers are empty for the native
\* strategies and the form-data package's headers otherwise, and they are
\* merged into the request's headers.
C24_FormAttached ==
    \A c \in DOMAIN calls :
        (/\ calls[c].op = "separate"
         /\ assertValidFileInput(calls[c].args[1]).ok
         /\ \/ IsNullish(calls[c].args[2].filename)
            \/ Trim(calls[c].args[2].filename.s) = <<>>
            \/ sanitizeFilename(Trim(calls[c].args[2].filename.s)).ok)
        => LET file == calls[c].args[1]
               given == GivenFilename(calls[c].args[2])
           IN  /\ Len(calls[c].requests) = 1
               /\ calls[c].requests[1].body.part = "file"
               /\ calls[c].requests[1].body.builder =
                      (IF env.formData THEN "FormData" ELSE "form-data")
               /\ calls[c].requests[1].body.filename =
                      (IF file.t = "string" /\ Basename(file.s) # <<>>
                       THEN Basename(file.s) ELSE given)
               /\ calls[c].requests[1].headers.ContentType =
                      (IF env.formData THEN Absent ELSE PackageHeaders.ContentType)


\* C25: concurrent calls on one client are isolated: in every interleaving of
\* separate, downloadStem and checkHealth calls each step (a timer firing, an
\* abort, an answer, a failure) changes the timer, the abort token and the
\* outcome of one call only and leaves every other call as it was, and no step
\* changes the client's baseUrl, apiKey or timeout.
C25_CallsIsolated ==
    [][/\ client' = client
       /\ \A c, d \in DOMAIN calls :
              (c # d /\ calls'[c] # calls[c]) => calls'[d] = calls[d]]_vars

\* of two calls in flight on the fetch path one was aborted by its timer and
\* has failed with TIMEOUT, the other was not aborted and has returned a result
C25_Witness ==
    \E c, d \in DOMAIN calls :
        /\ c # d
        /\ calls[c].pc = "done"
        /\ calls[c].aborted
        /\ ThrewCode(calls[c].result, ErrorCode.TIMEOUT)
        /\ calls[c].requests[1].transport = "fetch"
        /\ calls[d].op = "separate"
        /\ calls[d].pc = "done"
        /\ ~calls[d].aborted
        /\ calls[d].timer = "cleared"
        /\ calls[d].result.ok
        /\ client = RemoteClient


\* C26: the request of separate and of downloadStem carries an Authorization
\* header if and only if the client's apiKey is non-empty after trimming, and
\* its value is then 'Bearer ' followed by the trimmed apiKey; an absent, empty
\* or white-space apiKey gives no Authorization header.
C26_AuthorizationHeader ==
    \A c \in DOMAIN calls :
        (calls[c].op \in {"separate", "downloadStem"} /\ calls[c].requests # <<>>)
        => LET key == client.options.apiKey
               sent == calls[c].requests[1].headers.Authorization
           IN  IF key.t = "string" /\ \E i \in 1..Len(key.s) : key.s[i] \notin WhiteSpace
               THEN sent = Str(<<"B", "e", "a", "r", "e", "r", " ">> \o Trim(key.s))
               ELSE sent = Absent

\* a client constructed with apiKey ' k ' has sent the request of separate with
\* Authorization 'Bearer k' next to the form's Content-Type
C26_Witness ==
    \E c \in DOMAIN calls :
        /\ calls[c].op = "separate"
        /\ Len(calls[c].requests) = 1
        /\ client.options.apiKey = Str(<<" ", "k", " ">>)
        /\ calls[c].requests[1].headers.Authorization = Str(<<"B", "e", "a", "r", "e", "r", " ", "k">>)
        /\ calls[c].requests[1].headers.ContentType # Absent

====
